---------------------------- MODULE Spec2Model ----------------------------
(***************************************************************************)
(* Longeron++ storage core: the flat identifier registry                   *)
(* (BitView / BitPosIterator / BitViewIdRegistry / IdRegistryStl) and the  *)
(* partition store (PartitionUtils / PartitionDescStl / IntArrayMultiMap). *)
(*                                                                         *)
(* Representation notes                                                    *)
(*  - a word of the free-slot bitset (std::uint64_t) is the set of the     *)
(*    positions 0..63 of its one bits; a bitset is a sequence of words;    *)
(*    the word at C++ index i is ints[i + 1].                              *)
(*  - ID_T of the registry is instantiated with a 16 bit unsigned type, so *)
(*    that id_null is the number 65535.                                    *)
(***************************************************************************)
EXTENDS Integers, Sequences, FiniteSets, TLC

\* ---------------------------------------------------------------- bounds
\* largest number of 64 bit words the registry's vector may grow to
MaxWords == 2
\* largest length of a range handed to create(first, last)
MaxRange == 3
\* ids_capacity() of the store
MaxIds == 2
\* longest data handed to emplace
MaxLen == 2
\* pack is not called where it would raise the trailing free span's
\* m_partitionCount, which counts the partitions ever merged into it, above this
MaxMerged == 2
\* largest number of integers in the range a BitView is made of
MaxSeq == 2
\* largest number of resize calls made on one hierarchical bitset after its
\* construction
MaxResizes == 1
\* largest capacity() the registry on a hierarchical bitset may grow to
MaxCapacity == 130

\* ------------------------------------------------------------- constants
\* BitView::smc_bitSize is sizeof(int_t) * 8 of the integer type the view is
\* instantiated with; intBits holds that width (IdRegistryStl: uint64_t)
VARIABLE intBits

smc_bitSize == intBits
IdBits == 16

\* ------------------------------------------------------------- utilities
Min(S) == CHOOSE x \in S : \A y \in S : x <= y
Max(S) == CHOOSE x \in S : \A y \in S : y <= x
Pow2(n) == 2 ^ n

AllOnes == 0 .. (smc_bitSize - 1)

\* mutant of ctz: the position of the highest one bit
ctz_highest(block) == Max(block)

\* bitmath: count trailing zeros of a non-zero word
ctz(block) == Min(block)

\* bitmath: divide and round up
div_ceil(num, denom) == (num \div denom) + (IF num % denom # 0 THEN 1 ELSE 0)

\* null.hpp: the largest value of the id's integer type
id_null == Pow2(IdBits) - 1

\* conversion ID_T(pos) of a std::size_t position to the id type
ID_T(pos) == pos % Pow2(IdBits)

\* ------------------------------------------------------------- BitView
BitView_size(words) == Len(words) * smc_bitSize

RECURSIVE BitView_count_from(_, _)
BitView_count_from(words, i) ==
    IF i > Len(words) THEN 0
    ELSE Cardinality(words[i]) + BitView_count_from(words, i + 1)

BitView_count(words) == BitView_count_from(words, 1)

BitView_test(words, bit) ==
    LET block    == bit \div smc_bitSize
        blockBit == bit % smc_bitSize
    IN  blockBit \in words[block + 1]

BitView_set(words, bit) ==
    LET block    == bit \div smc_bitSize
        blockBit == bit % smc_bitSize
    IN  [words EXCEPT ![block + 1] = @ \cup {blockBit}]

\* mutant of BitView::reset: the mask is not inverted
BitView_reset_keepsOnlyBit(words, bit) ==
    LET block    == bit \div smc_bitSize
        blockBit == bit % smc_bitSize
    IN  [words EXCEPT ![block + 1] = @ \cap {blockBit}]

BitView_reset(words, bit) ==
    LET block    == bit \div smc_bitSize
        blockBit == bit % smc_bitSize
    IN  [words EXCEPT ![block + 1] = @ \ {blockBit}]

\* set(): std::fill with ~int_t(0)
BitView_set_all(words) == [i \in 1 .. Len(words) |-> AllOnes]

\* reset(): std::fill with int_t(0)
BitView_reset_all(words) == [i \in 1 .. Len(words) |-> {}]

\* ------------------------------------------------------- BitPosIterator
\* An iterator is [it, dist, block]: it is the C++ index of the current word
\* (Len(words) is the end), dist is m_distance, block the cached m_block.

\* mutant of int_iter_value: the word is not inverted for zeros
int_iter_value_plain(words, i, ONES) == words[i + 1]

\* the word as read for ones (ONES = true) or zeros (ONES = false) iteration
int_iter_value(words, i, ONES) ==
    IF ONES THEN words[i + 1] ELSE AllOnes \ words[i + 1]

c_emptyBlock(ONES) == IF ONES THEN {} ELSE AllOnes

\* the do/while of operator++: step to the next word, then skip empty words
RECURSIVE BitPos_skip(_, _, _, _)
BitPos_skip(words, i, dist, ONES) ==
    LET i2 == i + 1
        d2 == dist + smc_bitSize
    IN  IF i2 # Len(words) /\ words[i2 + 1] = c_emptyBlock(ONES)
        THEN BitPos_skip(words, i2, d2, ONES)
        ELSE [it |-> i2, dist |-> d2]

BitPos_inc(words, itr, ONES) ==
    LET blk == IF itr.block = {} THEN {} ELSE itr.block \ {ctz(itr.block)}
    IN  IF blk = {}
        THEN LET s == BitPos_skip(words, itr.it, itr.dist, ONES)
             IN  [it    |-> s.it,
                  dist  |-> s.dist,
                  block |-> IF s.it # Len(words)
                            THEN int_iter_value(words, s.it, ONES) ELSE {}]
        ELSE [itr EXCEPT !.block = blk]

\* BitPosIterator(end, it, bit, dist)
BitPos_ctor(words, it, bit, dist, ONES) ==
    IF it # Len(words)
    THEN LET blk   == {b \in int_iter_value(words, it, ONES) : b >= bit}
             start == [it |-> it, dist |-> dist, block |-> blk]
         IN  IF blk = {} THEN BitPos_inc(words, start, ONES) ELSE start
    ELSE [it |-> it, dist |-> dist, block |-> {}]

\* BitViewValues::begin()
BitViewValues_begin(words, ONES) == BitPos_ctor(words, 0, 0, 0, ONES)

\* the word indices whose value the do/while of operator++ reads
RECURSIVE BitPos_skip_reads(_, _, _)
BitPos_skip_reads(words, i, ONES) ==
    LET i2 == i + 1
    IN  IF i2 # Len(words)
        THEN {i2} \cup (IF words[i2 + 1] = c_emptyBlock(ONES)
                        THEN BitPos_skip_reads(words, i2, ONES) ELSE {})
        ELSE {}

\* the word indices read by begin(): the constructor reads the first word
\* and, finding no bit in it, increments to the first valid bit
BitViewValues_begin_reads(words, ONES) ==
    IF 0 # Len(words)
    THEN {0} \cup (IF int_iter_value(words, 0, ONES) = {}
                   THEN BitPos_skip_reads(words, 0, ONES) ELSE {})
    ELSE {}

BitPos_atEnd(words, itr) == itr.it = Len(words)

BitPos_deref(itr) == itr.dist + ctz(itr.block)

\* for (std::size_t pos : bits.ones()) / bits.zeros(): the positions seen
\* by a loop from begin() until the iterator equals the sentinel
\* the part of that loop spent on the word the iterator stands on
RECURSIVE BitViewValues_iterate_word(_, _, _, _)
BitViewValues_iterate_word(words, itr, ONES, seen) ==
    LET next  == BitPos_inc(words, itr, ONES)
        seen2 == Append(seen, BitPos_deref(itr))
    IN  IF next.it # itr.it
        THEN [seen |-> seen2, itr |-> next]
        ELSE BitViewValues_iterate_word(words, next, ONES, seen2)

RECURSIVE BitViewValues_iterate_from(_, _, _)
BitViewValues_iterate_from(words, itr, ONES) ==
    IF BitPos_atEnd(words, itr)
    THEN << >>
    ELSE LET word == BitViewValues_iterate_word(words, itr, ONES, << >>)
         IN  word.seen \o BitViewValues_iterate_from(words, word.itr, ONES)

BitViewValues_iterate(words, ONES) ==
    BitViewValues_iterate_from(words, BitViewValues_begin(words, ONES), ONES)

\* ---------------------------------------------------- BitViewIdRegistry
BitViewIdRegistry_capacity(words) == BitView_size(words)

BitViewIdRegistry_size(words) ==
    BitViewIdRegistry_capacity(words) - BitView_count(words)

BitViewIdRegistry_exists(words, id) ==
    id < BitViewIdRegistry_capacity(words) /\ ~ BitView_test(words, id)

\* mutant of remove(id): the assertion is compiled out of every build
BitViewIdRegistry_remove_unasserted(words, id) ==
    [ints     |-> IF id < BitView_size(words) THEN BitView_set(words, id) ELSE words,
     asserted |-> FALSE,
     ub       |-> ~ (id < BitView_size(words))]

\* void remove(ID_T id): asserted tells that LGRN_ASSERTMV(exists(id), ...)
\* found its condition false, ints is the bitset after Base_t::set(id), which
\* a build without assertions reaches then too, and ub tells that this set
\* writes outside the bitset
BitViewIdRegistry_remove(words, id) ==
    [ints     |-> IF id < BitView_size(words) THEN BitView_set(words, id) ELSE words,
     asserted |-> ~ BitViewIdRegistry_exists(words, id),
     ub       |-> ~ (id < BitView_size(words))]

\* mutant of the while loop of create(first, last): the output is filled
\* from its far end
RECURSIVE BitViewIdRegistry_create_loop_backwards(_, _, _, _, _)
BitViewIdRegistry_create_loop_backwards(words, itr, out, first, last) ==
    IF first # last /\ ~ BitPos_atEnd(words, itr)
    THEN LET pos    == BitPos_deref(itr)
             words2 == BitView_reset(words, pos)
         IN  BitViewIdRegistry_create_loop_backwards(
                 words2, BitPos_inc(words2, itr, TRUE),
                 [out EXCEPT ![last - first] = ID_T(pos)], first + 1, last)
    ELSE [ints |-> words, out |-> out, first |-> first]

\* the while loop of create(first, last): out is the caller's output array,
\* first and last are positions in it (0 based, last is one past the end)
RECURSIVE BitViewIdRegistry_create_loop(_, _, _, _, _)
BitViewIdRegistry_create_loop(words, itr, out, first, last) ==
    IF first # last /\ ~ BitPos_atEnd(words, itr)
    THEN LET pos    == BitPos_deref(itr)
             words2 == BitView_reset(words, pos)
         IN  BitViewIdRegistry_create_loop(
                 words2, BitPos_inc(words2, itr, TRUE),
                 [out EXCEPT ![first + 1] = ID_T(pos)], first + 1, last)
    ELSE [ints |-> words, out |-> out, first |-> first]

\* ITER_T create(ITER_T first, SNTL_T last)
BitViewIdRegistry_create(words, out, first, last) ==
    BitViewIdRegistry_create_loop(
        words, BitViewValues_begin(words, TRUE), out, first, last)

\* mutant of the registry's begin(): the loop runs over ones(), the free slots
BitViewIdRegistry_iterate_ones(words) ==
    LET ones == BitViewValues_iterate(words, TRUE)
    IN  [i \in 1 .. Len(ones) |-> ID_T(ones[i])]

\* for (ID_T id : registry): begin() is zeros().begin() behind an
\* IdCastIterator, the loop runs ++ until the iterator equals end()
BitViewIdRegistry_iterate(words) ==
    LET zeros == BitViewValues_iterate(words, FALSE)
    IN  [i \in 1 .. Len(zeros) |-> ID_T(zeros[i])]

\* -------------------------------------------------------- std::vector
\* Capacity chosen by the vector when it must reallocate to hold newSize
\* elements; the growth factor is the standard library's choice.
vector_grow(policy, size, cap, newSize) ==
    IF policy = "x2"
    THEN size + Max({size, newSize - size})
    ELSE Max({cap + (cap \div 2), newSize})

\* vec.push_back(~uint64_t(0))
vector_push_back(policy, vec) ==
    [ints |-> Append(vec.ints, AllOnes),
     cap  |-> IF Len(vec.ints) = vec.cap
              THEN vector_grow(policy, Len(vec.ints), vec.cap, Len(vec.ints) + 1)
              ELSE vec.cap]

\* mutant of the vector's resize: assign(n, ~0), which overwrites old words
vector_resize_assign(policy, vec, n) ==
    [ints |-> [i \in 1 .. n |-> AllOnes],
     cap  |-> IF n > vec.cap
              THEN vector_grow(policy, Len(vec.ints), vec.cap, n)
              ELSE vec.cap]

\* vec.resize(n, ~uint64_t(0))
vector_resize(policy, vec, n) ==
    [ints |-> IF n <= Len(vec.ints)
              THEN SubSeq(vec.ints, 1, n)
              ELSE vec.ints \o [i \in 1 .. (n - Len(vec.ints)) |-> AllOnes],
     cap  |-> IF n > vec.cap
              THEN vector_grow(policy, Len(vec.ints), vec.cap, n)
              ELSE vec.cap]

\* -------------------------------------------------------- IdRegistryStl
\* mutant of IdRegistryStl::create: the NO_AUTO_RESIZE branch is missing
RECURSIVE IdRegistryStl_create_alwaysGrows(_, _, _, _, _, _)
IdRegistryStl_create_alwaysGrows(NO_AUTO_RESIZE, policy, vec, out, first, last) ==
    LET r == BitViewIdRegistry_create(vec.ints, out, first, last)
    IN  IF r.first # last
        THEN IdRegistryStl_create_alwaysGrows(
                 NO_AUTO_RESIZE, policy,
                 [ints |-> Append(r.ints, AllOnes), cap |-> Len(r.ints) + 1],
                 r.out, r.first, last)
        ELSE [ints |-> r.ints, cap |-> vec.cap, out |-> r.out, first |-> r.first]

\* create(first, last): vec is [ints, cap]; the result adds out and first
RECURSIVE IdRegistryStl_create(_, _, _, _, _, _)
IdRegistryStl_create(NO_AUTO_RESIZE, policy, vec, out, first, last) ==
    LET r == BitViewIdRegistry_create(vec.ints, out, first, last)
    IN  IF NO_AUTO_RESIZE
        THEN [ints |-> r.ints, cap |-> vec.cap, out |-> r.out, first |-> r.first]
        ELSE IF r.first # last
             THEN LET pushed == vector_push_back(
                                    policy, [ints |-> r.ints, cap |-> vec.cap])
                      grown  == vector_resize(policy, pushed, pushed.cap)
                  IN  IdRegistryStl_create(
                          NO_AUTO_RESIZE, policy, grown, r.out, r.first, last)
             ELSE [ints |-> r.ints, cap |-> vec.cap,
                   out |-> r.out, first |-> r.first]

\* the first pass of the while (true) loop of create(first, last) on an
\* auto-growing registry: whether the pass ends in the growth branch, the
\* capacity at which the free slots ran out, and for the create call of the
\* next pass the word indices its begin() reads and the slot it stands on
IdRegistryStl_create_resume(policy, vec, out, first, last) ==
    LET r      == BitViewIdRegistry_create(vec.ints, out, first, last)
        pushed == vector_push_back(policy, [ints |-> r.ints, cap |-> vec.cap])
        grown  == vector_resize(policy, pushed, pushed.cap)
        itr    == BitViewValues_begin(grown.ints, TRUE)
    IN  [grew  |-> r.first # last,
         C     |-> BitViewIdRegistry_capacity(r.ints),
         given |-> r.first,
         reads |-> BitViewValues_begin_reads(grown.ints, TRUE),
         slot  |-> BitPos_deref(itr)]

\* reserve(n)
IdRegistryStl_reserve(policy, vec, n) ==
    vector_resize(policy, vec, div_ceil(n, smc_bitSize))


\* ================================================== HierarchicalBitset
\* A bitset is [m_rows, m_size, m_count, m_topLevel, m_blockCount, m_blocks]:
\* m_blocks is the one array that holds every row, a block being the set of
\* the positions of its one bits and the block at C++ index i m_blocks[i + 1];
\* m_rows holds the {m_offset, m_size} of the rows 0 .. m_topLevel that the
\* constructor wrote (the rest of the std::array is never read).
\* smc_blockSize is sizeof(BLOCK_INT_T) * 8, held in intBits like the word
\* width of a BitView.
smc_blockSize == intBits

BlockOnes == 0 .. (smc_blockSize - 1)

\* bitmath: index of the first set bit after bit n, 0 if there is none
next_bit(block, bit) ==
    LET masked == {b \in block : b > bit}
    IN  IF masked = {} THEN 0 ELSE ctz(masked)

\* block << n in BLOCK_INT_T
shift_left(block, n) == {b + n : b \in {x \in block : x + n < smc_blockSize}}

\* bitmath: set_bits(&blocks[dest], bits)
set_bits(blocks, dest, bits) ==
    LET full == bits \div smc_blockSize
        rest == bits % smc_blockSize
    IN  [n \in 1 .. Len(blocks) |->
            LET c == n - 1 - dest
            IN  IF c >= 0 /\ c < full THEN BlockOnes
                ELSE IF c = full /\ rest # 0
                     THEN blocks[n] \cup (0 .. (rest - 1))
                     ELSE blocks[n]]

\* copy_bits that copies the last block whole instead of masking its low bits
copy_bits_wholeBlocks(src, srcAt, dest, destAt, bits) ==
    LET full == div_ceil(bits, smc_blockSize)
    IN  [n \in 1 .. Len(dest) |->
            LET c == n - 1 - destAt
            IN  IF c >= 0 /\ c < full THEN src[srcAt + c + 1] ELSE dest[n]]

\* bitmath: copy_bits(&src[srcAt], &dest[destAt], bits)
copy_bits(src, srcAt, dest, destAt, bits) ==
    LET full == bits \div smc_blockSize
        rest == bits % smc_blockSize
    IN  [n \in 1 .. Len(dest) |->
            LET c == n - 1 - destAt
            IN  IF c >= 0 /\ c < full THEN src[srcAt + c + 1]
                ELSE IF c = full /\ rest # 0
                     THEN {b \in dest[n] : b >= rest}
                             \cup {b \in src[srcAt + c + 1] : b < rest}
                     ELSE dest[n]]

\* calc_blocks_recurse: the result holds the total, rLevel and rLevels
RECURSIVE calc_blocks_recurse(_, _, _, _)
calc_blocks_recurse(bitCount, dataUsed, rLevel, rLevels) ==
    LET blocksRequired == div_ceil(bitCount, smc_blockSize)
        rows == Append(rLevels, [m_offset |-> dataUsed, m_size |-> blocksRequired])
    IN  IF blocksRequired > 1
        THEN LET r == calc_blocks_recurse(
                          blocksRequired, dataUsed + blocksRequired, rLevel + 1, rows)
             IN  [total |-> blocksRequired + r.total, level |-> r.level, rows |-> r.rows]
        ELSE [total |-> blocksRequired, level |-> rLevel, rows |-> rows]

\* HierarchicalBitset(): m_rows is left as it is, m_blocks is null
HierarchicalBitset_default ==
    [m_rows |-> << >>, m_size |-> 0, m_count |-> 0, m_topLevel |-> 0,
     m_blockCount |-> 0, m_blocks |-> << >>]

\* bit_at(rowBit)
bit_at(rowBit) ==
    [m_block |-> rowBit \div smc_blockSize, m_bit |-> rowBit % smc_blockSize]

\* RowBit{} and RowBit::valid()
RowBit_none == [m_block |-> 0, m_bit |-> -1]
RowBit_valid(pos) == pos.m_bit # -1

\* the block of a row, m_blocks[m_rows[level].m_offset + block]
row_block(hb, level, block) ==
    hb.m_blocks[hb.m_rows[level + 1].m_offset + block + 1]

\* void set(); on a default constructed bitset the loop sets 0 bits at an
\* address it never uses
RECURSIVE HierarchicalBitset_set_all_from(_, _)
HierarchicalBitset_set_all_from(hb, i) ==
    IF i < hb.m_topLevel + 1 /\ hb.m_rows # << >>
    THEN LET bits == IF i # 0 THEN hb.m_rows[i].m_size ELSE hb.m_size
         IN  HierarchicalBitset_set_all_from(
                 [hb EXCEPT !.m_blocks =
                      set_bits(hb.m_blocks, hb.m_rows[i + 1].m_offset, bits)],
                 i + 1)
    ELSE [hb EXCEPT !.m_count = hb.m_size]

HierarchicalBitset_set_all(hb) == HierarchicalBitset_set_all_from(hb, 0)

\* HierarchicalBitset(size, fill)
HierarchicalBitset_ctor(size, fill) ==
    LET c  == calc_blocks_recurse(size, 0, 0, << >>)
        hb == [m_rows |-> c.rows, m_size |-> size, m_count |-> 0,
               m_topLevel |-> c.level, m_blockCount |-> c.total,
               m_blocks |-> [n \in 1 .. c.total |-> {}]]
    IN  IF fill THEN HierarchicalBitset_set_all(hb) ELSE hb

\* bool test(bit), called with bit < size() (bounds_check throws otherwise)
HierarchicalBitset_test(hb, bit) ==
    LET pos == bit_at(bit)
    IN  pos.m_bit \in row_block(hb, 0, pos.m_block)

\* block_set_recurse(level, pos)
RECURSIVE block_set_recurse(_, _, _)
block_set_recurse(hb, level, pos) ==
    LET at       == hb.m_rows[level + 1].m_offset + pos.m_block + 1
        blockOld == hb.m_blocks[at]
        rBlock   == blockOld \cup {pos.m_bit}
        hb2      == [hb EXCEPT !.m_blocks[at] = rBlock,
                               !.m_count = IF blockOld # rBlock /\ level = 0
                                           THEN @ + 1 ELSE @]
    IN  IF blockOld # rBlock /\ blockOld = {} /\ level # hb.m_topLevel
        THEN block_set_recurse(hb2, level + 1, bit_at(pos.m_block))
        ELSE hb2

\* block_reset_recurse(level, pos)
RECURSIVE block_reset_recurse(_, _, _)
block_reset_recurse(hb, level, pos) ==
    LET at       == hb.m_rows[level + 1].m_offset + pos.m_block + 1
        blockOld == hb.m_blocks[at]
        rBlock   == blockOld \ {pos.m_bit}
        hb2      == [hb EXCEPT !.m_blocks[at] = rBlock,
                               !.m_count = IF blockOld # rBlock /\ level = 0
                                           THEN @ - 1 ELSE @]
    IN  IF blockOld = {}
        THEN hb
        ELSE IF blockOld # rBlock /\ rBlock = {} /\ level # hb.m_topLevel
             THEN block_reset_recurse(hb2, level + 1, bit_at(pos.m_block))
             ELSE hb2

\* void set(bit) and void reset(bit), called with bit < size()
HierarchicalBitset_set(hb, bit) == block_set_recurse(hb, 0, bit_at(bit))
HierarchicalBitset_reset(hb, bit) == block_reset_recurse(hb, 0, bit_at(bit))

\* void reset(): std::fill over all m_blockCount blocks
HierarchicalBitset_reset_all(hb) ==
    [hb EXCEPT !.m_blocks = [n \in 1 .. hb.m_blockCount |-> {}], !.m_count = 0]

\* mutant of next(level, pos): the search never leaves the block it is in
HierarchicalBitset_next_at_sameBlock(hb, level, pos) ==
    LET nextBit == next_bit(row_block(hb, level, pos.m_block), pos.m_bit)
    IN  IF nextBit # 0
        THEN [m_block |-> pos.m_block, m_bit |-> nextBit]
        ELSE RowBit_none

\* RowBit next(level, pos)
RECURSIVE HierarchicalBitset_next_at(_, _, _)
HierarchicalBitset_next_at(hb, level, pos) ==
    LET nextBit == next_bit(row_block(hb, level, pos.m_block), pos.m_bit)
    IN  IF nextBit # 0
        THEN [m_block |-> pos.m_block, m_bit |-> nextBit]
        ELSE IF level = hb.m_topLevel
             THEN RowBit_none
             ELSE LET nextUpperPos == HierarchicalBitset_next_at(
                                          hb, level + 1, bit_at(pos.m_block))
                      nextBlkOffset == nextUpperPos.m_block * smc_blockSize
                                           + nextUpperPos.m_bit
                  IN  IF ~ RowBit_valid(nextUpperPos)
                      THEN RowBit_none
                      ELSE [m_block |-> nextBlkOffset,
                            m_bit   |-> ctz(row_block(hb, level, nextBlkOffset))]

\* std::size_t next(bit)
HierarchicalBitset_next(hb, bit) ==
    LET nextPos == HierarchicalBitset_next_at(hb, 0, bit_at(bit))
    IN  IF ~ RowBit_valid(nextPos)
        THEN hb.m_size
        ELSE nextPos.m_block * smc_blockSize + nextPos.m_bit

\* std::size_t front()
HierarchicalBitset_front(hb) ==
    IF hb.m_size = 0
    THEN hb.m_size
    ELSE IF HierarchicalBitset_test(hb, 0) THEN 0
         ELSE HierarchicalBitset_next(hb, 0)

\* Iterator: begin(), end(), operator* and operator++ on the iterator's m_pos
HierarchicalBitset_begin(hb) == bit_at(HierarchicalBitset_front(hb))
HierarchicalBitset_end(hb) == bit_at(hb.m_size)
Iterator_deref(pos) == pos.m_block * smc_blockSize + pos.m_bit
Iterator_inc(hb, pos) ==
    LET nextPos == HierarchicalBitset_next_at(hb, 0, pos)
    IN  IF RowBit_valid(nextPos) THEN nextPos ELSE bit_at(hb.m_size)

\* for (std::size_t num : bitset): the part of the loop spent in one block
\* of row 0, then the whole loop
RECURSIVE HierarchicalBitset_iterate_block(_, _, _)
HierarchicalBitset_iterate_block(hb, pos, seen) ==
    LET next  == Iterator_inc(hb, pos)
        seen2 == Append(seen, Iterator_deref(pos))
    IN  IF next.m_block # pos.m_block \/ next = HierarchicalBitset_end(hb)
        THEN [seen |-> seen2, pos |-> next]
        ELSE HierarchicalBitset_iterate_block(hb, next, seen2)

RECURSIVE HierarchicalBitset_iterate_from(_, _)
HierarchicalBitset_iterate_from(hb, pos) ==
    IF pos = HierarchicalBitset_end(hb)
    THEN << >>
    ELSE LET block == HierarchicalBitset_iterate_block(hb, pos, << >>)
         IN  block.seen \o HierarchicalBitset_iterate_from(hb, block.pos)

HierarchicalBitset_iterate(hb) ==
    HierarchicalBitset_iterate_from(hb, HierarchicalBitset_begin(hb))

\* take_recurse(level, blockNum, rOut, rCount): the result holds the bitset,
\* rOut, rCount and the returned flag; ub is set when the block read lies
\* outside m_blocks, and the call is not followed further
RECURSIVE take_recurse(_, _, _, _, _, _)
take_recurse(hb, level, blockNum, rOut, rCount, toId) ==
    LET at     == hb.m_rows[level + 1].m_offset + blockNum
        rBlock == hb.m_blocks[at + 1]
        blockBit == ctz(rBlock)
        rowBit   == blockNum * smc_blockSize + blockBit
    IN  IF at >= hb.m_blockCount
        THEN [hb |-> hb, out |-> rOut, count |-> rCount, ret |-> FALSE, ub |-> TRUE]
        ELSE IF rBlock = {}
        THEN [hb |-> hb, out |-> rOut, count |-> rCount, ret |-> FALSE, ub |-> FALSE]
        ELSE IF rCount = 0
        THEN [hb |-> hb, out |-> rOut, count |-> rCount, ret |-> TRUE, ub |-> FALSE]
        ELSE IF level = 0
        THEN take_recurse(
                 [hb EXCEPT !.m_count = @ - 1,
                            !.m_blocks[at + 1] = @ \ {blockBit}],
                 level, blockNum,
                 Append(rOut, IF toId THEN ID_T(rowBit) ELSE rowBit),
                 rCount - 1, toId)
        ELSE LET r == take_recurse(hb, level - 1, rowBit, rOut, rCount, toId)
             IN  IF r.ub
                 THEN r
                 ELSE IF r.ret
                 THEN take_recurse(r.hb, level, blockNum, r.out, r.count, toId)
                 ELSE take_recurse(
                          [r.hb EXCEPT !.m_blocks[at + 1] = @ \ {blockBit}],
                          level, blockNum, r.out, r.count, toId)

\* the for loop of take over the blocks of the top row
RECURSIVE take_loop(_, _, _, _, _)
take_loop(hb, i, out, count, toId) ==
    IF i < hb.m_rows[hb.m_topLevel + 1].m_size
    THEN LET r == take_recurse(hb, hb.m_topLevel, i, out, count, toId)
         IN  IF r.ub \/ r.count = 0
             THEN [hb |-> r.hb, out |-> r.out, count |-> r.count, ub |-> r.ub]
             ELSE take_loop(r.hb, i + 1, r.out, r.count, toId)
    ELSE [hb |-> hb, out |-> out, count |-> count, ub |-> FALSE]

\* std::size_t take(out, count); toId says that CONVERT_T is the id type.
\* A default constructed bitset has no m_rows[0] to read: undefined behaviour.
HierarchicalBitset_take(hb, count, toId) ==
    IF hb.m_rows = << >>
    THEN [hb |-> hb, out |-> << >>, count |-> count, ub |-> TRUE]
    ELSE take_loop(hb, 0, << >>, count, toId)

\* recount()
RECURSIVE recount_from(_, _)
recount_from(hb, i) ==
    IF i < hb.m_rows[1].m_size
    THEN Cardinality(row_block(hb, 0, i)) + recount_from(hb, i + 1)
    ELSE 0

recount(hb) == [hb EXCEPT !.m_count = recount_from(hb, 0)]

\* recalc_blocks(): rows 1 .. m_topLevel, each from the row below
RECURSIVE recalc_blocks_from(_, _)
recalc_blocks_from(hb, i) ==
    IF i < hb.m_topLevel
    THEN LET current == hb.m_rows[i + 2]
             below   == hb.m_rows[i + 1]
             belowBlocks(j) ==
                 Min({smc_blockSize, below.m_size - (j * smc_blockSize)})
             blockNew(j) ==
                 UNION {shift_left(hb.m_blocks[below.m_offset + k + 1], k) :
                            k \in 0 .. (belowBlocks(j) - 1)}
         IN  recalc_blocks_from(
                 [hb EXCEPT !.m_blocks =
                      [n \in 1 .. Len(hb.m_blocks) |->
                          LET j == n - 1 - current.m_offset
                          IN  IF j >= 0 /\ j < current.m_size
                              THEN blockNew(j) ELSE hb.m_blocks[n]]],
                 i + 1)
    ELSE hb

recalc_blocks(hb) == recalc_blocks_from(hb, 0)

\* void resize(size, fill)
HierarchicalBitset_resize(hb, size, fill) ==
    LET replacement == HierarchicalBitset_ctor(size, fill)
        bits        == Min({hb.m_size, replacement.m_size})
        copied      == IF bits = 0
                       THEN replacement
                       ELSE [replacement EXCEPT !.m_blocks =
                                copy_bits(hb.m_blocks, hb.m_rows[1].m_offset,
                                          replacement.m_blocks,
                                          replacement.m_rows[1].m_offset, bits)]
    IN  recount(recalc_blocks(copied))

\* ---------------------------------- IdRegistry on a HierarchicalBitset
\* The registry's only member is the bitset m_deleted (uint64_t blocks), in
\* which a one bit is a free id.
IdRegistry_capacity(m_deleted) == m_deleted.m_size

IdRegistry_size(m_deleted) == IdRegistry_capacity(m_deleted) - m_deleted.m_count

\* bool exists(id), called with id < capacity() (test() throws otherwise)
IdRegistry_exists(m_deleted, id) == ~ HierarchicalBitset_test(m_deleted, id)

\* void reserve(n)
IdRegistry_reserve(m_deleted, n) == HierarchicalBitset_resize(m_deleted, n, TRUE)

\* void remove(id), called on an existing id as it asserts
IdRegistry_remove(m_deleted, id) == HierarchicalBitset_set(m_deleted, id)

\* void create(out, count): the result of take with the flag asserted, set
\* when a resize is needed although NO_AUTO_RESIZE is true
IdRegistry_create(NO_AUTO_RESIZE, m_deleted, count) ==
    LET cap     == IdRegistry_capacity(m_deleted)
        needs   == m_deleted.m_count < count
        resized == IF needs
                   THEN IdRegistry_reserve(m_deleted, Max({cap + count, cap * 2}))
                   ELSE m_deleted
        r       == HierarchicalBitset_take(resized, count, TRUE)
    IN  [hb |-> r.hb, out |-> r.out, count |-> r.count, ub |-> r.ub,
         asserted |-> needs /\ NO_AUTO_RESIZE]

\* ============================================================ partitions
\* Integer types of IntArrayMultiMap<unsigned int, int>:
\*   INT_T = unsigned int (ids and partition numbers), SIZE_T = std::size_t
\*   (offsets), PARTITION_SIZE_T = unsigned short (span and free sizes).
\* A value of INT_T or SIZE_T that has wrapped below zero is written as the
\* negative number congruent to it, so ~INT_T(0) is -1; ult compares two
\* such numbers as the unsigned values they stand for.
PartitionSizeBits == 16

smc_null == -1

\* ~std::size_t(0), the default move budget of pack, as the largest integer
size_max == 2147483647

ult(a, b) == IF (a >= 0) <=> (b >= 0) THEN a < b ELSE b < 0

\* conversion to partition_size_t
partition_size_t(x) == x % Pow2(PartitionSizeBits)

\* index i is inside the std::vector vec
InRange(vec, i) == 0 <= i /\ i < Len(vec)

\* vec[i] = v; a write outside the vector does not reach the vector
VecPut(vec, i, v) == IF InRange(vec, i) THEN [vec EXCEPT ![i + 1] = v] ELSE vec

\* vec[i]; garbage is what a read outside the vector yields
VecGet(vec, i, garbage) == IF InRange(vec, i) THEN vec[i + 1] ELSE garbage

NullFree == [m_offset |-> 0, m_partitionNum |-> 0, m_partitionCount |-> 0, m_size |-> 0]
NullSpan == [m_offset |-> 0, m_size |-> 0]

\* mutant of create_partition: the span is cut from the right edge of the
\* trailing free span
create_partition_fromRight(prtnSize, rLastFree) ==
    IF rLastFree.m_size < prtnSize
    THEN [prtn |-> [m_offset |-> 0, m_partitionNum |-> smc_null],
          last |-> rLastFree]
    ELSE [prtn |-> [m_offset       |-> rLastFree.m_offset + rLastFree.m_size
                                           - prtnSize,
                    m_partitionNum |-> rLastFree.m_partitionNum],
          last |-> [rLastFree EXCEPT
                       !.m_size         = partition_size_t(@ - prtnSize),
                       !.m_partitionNum = @ + 1]]

\* PartitionUtils::create_partition(prtnSize, rLastFree)
create_partition(prtnSize, rLastFree) ==
    IF rLastFree.m_size < prtnSize
    THEN [prtn |-> [m_offset |-> 0, m_partitionNum |-> smc_null],
          last |-> rLastFree]
    ELSE [prtn |-> [m_offset       |-> rLastFree.m_offset,
                    m_partitionNum |-> rLastFree.m_partitionNum],
          last |-> [rLastFree EXCEPT
                       !.m_size         = partition_size_t(@ - prtnSize),
                       !.m_offset       = @ + prtnSize,
                       !.m_partitionNum = @ + 1]]

\* PartitionDescStl::resize(maxIds) on a default constructed descriptor
PartitionDescStl_resize(maxIds) ==
    [m_partitionToId |-> [i \in 1 .. maxIds |-> smc_null],
     m_freeLast      |-> NullFree,
     m_free          |-> << >>,
     m_dataUsed      |-> 0,
     m_idCount       |-> 0,
     m_idToPartition |-> [i \in 1 .. maxIds |-> smc_null],
     m_idToData      |-> [i \in 1 .. maxIds |-> NullSpan]]

PartitionDescStl_id_in_range(p, id) == ult(id, Len(p.m_idToPartition))

PartitionDescStl_exists(p, id) == p.m_idToPartition[id + 1] # smc_null

\* PartitionDescStl::create(id, size); ub tells that m_partitionToId was
\* written outside its bounds
PartitionDescStl_create(p, id, size) ==
    LET r    == create_partition(size, p.m_freeLast)
        prtn == r.prtn
    IN  [p    |-> [p EXCEPT
                     !.m_freeLast      = r.last,
                     !.m_partitionToId = VecPut(@, prtn.m_partitionNum, id),
                     !.m_idToPartition = VecPut(@, id, prtn.m_partitionNum),
                     !.m_idToData      = VecPut(@, id,
                                            [m_offset |-> prtn.m_offset,
                                             m_size   |-> size]),
                     !.m_idCount       = @ + 1,
                     !.m_dataUsed      = @ + size],
         prtn |-> prtn,
         ub   |-> ~ InRange(p.m_partitionToId, prtn.m_partitionNum)]

\* std::upper_bound(first, last, free, comp) with
\* comp(lhs, rhs) = lhs.m_partitionNum > rhs.m_partitionNum; first and len
\* are the binary search's position (0 based) and remaining length
RECURSIVE upper_bound(_, _, _, _)
upper_bound(frees, free, first, len) ==
    IF len > 0
    THEN LET half   == len \div 2
             middle == first + half
         IN  IF ult(frees[middle + 1].m_partitionNum, free.m_partitionNum)
             THEN upper_bound(frees, free, first, half)
             ELSE upper_bound(frees, free, middle + 1, len - half - 1)
    ELSE first

\* m_free.push_back(free) in place of the insertion at the sorted position
vector_insert_atEnd(vec, pos, x) == Append(vec, x)

\* m_free.insert(it, free) with it at 0 based position pos
vector_insert(vec, pos, x) ==
    SubSeq(vec, 1, pos) \o <<x>> \o SubSeq(vec, pos + 1, Len(vec))

\* PartitionDescStl::erase(id)
PartitionDescStl_erase(p, id) ==
    LET partition == p.m_idToPartition[id + 1]
        data      == p.m_idToData[id + 1]
        free      == [m_offset         |-> data.m_offset,
                      m_partitionNum   |-> partition,
                      m_partitionCount |-> 1,
                      m_size           |-> data.m_size]
    IN  [p    |-> [p EXCEPT
                     !.m_idToPartition = VecPut(@, id, smc_null),
                     !.m_partitionToId = VecPut(@, partition, smc_null),
                     !.m_free          =
                         IF @ = << >>
                         THEN <<free>>
                         ELSE vector_insert(@, upper_bound(@, free, 0, Len(@)), free),
                     !.m_dataUsed      = @ - data.m_size,
                     !.m_idCount       = @ - 1],
         free |-> free,
         ub   |-> ~ InRange(p.m_partitionToId, partition)]

\* the while (true) loop of pack_step: rFirst is m_free.back(), nextIsLast
\* tells that rNext is m_freeLast (otherwise it is the record before rFirst).
\* The result also tells whether a vector was accessed outside its bounds (ub)
\* and whether LGRN_ASSERT(nextPrtn == rNext.m_partitionNum) failed.
RECURSIVE pack_step_loop(_, _, _, _, _)
pack_step_loop(p, currentPrtn, movedData, maxMovesHint, ub) ==
    LET rFirst     == p.m_free[Len(p.m_free)]
        nextIsLast == Len(p.m_free) = 1
        rNext      == IF nextIsLast THEN p.m_freeLast
                      ELSE p.m_free[Len(p.m_free) - 1]
        nextPrtn   == currentPrtn + rFirst.m_partitionCount
        nextId     == IF ult(nextPrtn, Len(p.m_partitionToId))
                      THEN p.m_partitionToId[nextPrtn + 1] ELSE smc_null
    IN  IF nextId # smc_null
        THEN LET span   == p.m_idToData[nextId + 1]
                 p2     == [p EXCEPT
                              !.m_partitionToId =
                                  VecPut(VecPut(@, currentPrtn, nextId),
                                         nextPrtn, smc_null),
                              !.m_idToPartition = VecPut(@, nextId, currentPrtn),
                              !.m_idToData      =
                                  VecPut(@, nextId,
                                         [span EXCEPT !.m_offset = @ - rFirst.m_size])]
                 moved2 == movedData + span.m_size
                 ub2    == ub \/ ~ InRange(p.m_partitionToId, currentPrtn)
             IN  IF moved2 > maxMovesHint
                 THEN [p |-> p2, movedData |-> moved2, ub |-> ub2, asserted |-> FALSE]
                 ELSE pack_step_loop(p2, currentPrtn + 1, moved2, maxMovesHint, ub2)
        ELSE LET merged == [rNext EXCEPT
                              !.m_offset         = @ - rFirst.m_size,
                              !.m_partitionNum   = @ - rFirst.m_partitionCount,
                              !.m_partitionCount = @ + rFirst.m_partitionCount,
                              !.m_size           = partition_size_t(@ + rFirst.m_size)]
                 popped == SubSeq(p.m_free, 1, Len(p.m_free) - 1)
             IN  [p |-> [p EXCEPT
                           !.m_freeLast = IF nextIsLast THEN merged ELSE @,
                           !.m_free     = IF nextIsLast THEN popped
                                          ELSE [popped EXCEPT ![Len(popped)] = merged]],
                  movedData |-> movedData,
                  ub        |-> ub,
                  asserted  |-> nextPrtn # rNext.m_partitionNum]

\* PartitionDescStl::pack_step(maxMovesHint)
pack_step(p, maxMovesHint) ==
    IF p.m_free = << >>
    THEN [p |-> p, moved |-> [m_offsetSrc |-> 0, m_offsetDst |-> 0, m_size |-> 0],
          ub |-> FALSE, asserted |-> FALSE]
    ELSE LET rFirst == p.m_free[Len(p.m_free)]
             r      == pack_step_loop(p, rFirst.m_partitionNum, 0, maxMovesHint, FALSE)
         IN  [p        |-> r.p,
              moved    |-> [m_offsetSrc |-> rFirst.m_offset + rFirst.m_size,
                            m_offsetDst |-> rFirst.m_offset,
                            m_size      |-> r.movedData],
              ub       |-> r.ub,
              asserted |-> r.asserted]

\* ============================================================= the buffer
\* m_data is the function from the offsets that hold a constructed element to
\* that element; NoValue, which no payload holds, stands for whatever a read
\* of any other offset of the buffer, or of memory outside it, yields.
NoValue == -1

DataGet(data, off) == IF off \in DOMAIN data THEN data[off] ELSE NoValue

\* elements constructed at off, off + 1, ... from the sequence vals; an
\* element that falls outside the buffer of dataSize elements is not stored
DataConstruct(data, dataSize, off, vals) ==
    LET offs == {o \in off .. (off + Len(vals) - 1) : 0 <= o /\ o < dataSize}
    IN  [o \in DOMAIN data \cup offs |->
            IF o \in offs THEN vals[o - off + 1] ELSE data[o]]

\* std::destroy_n(&m_data[off], n)
DataDestroy(data, off, n) ==
    [o \in DOMAIN data \ (off .. (off + n - 1)) |-> data[o]]

\* the for loop of pack: n elements move-constructed from src onward to dst
\* onward, lowest first; a moved-from element is no longer a value
RECURSIVE DataMove(_, _, _, _, _)
DataMove(data, dataSize, src, dst, n) ==
    IF n = 0 THEN data
    ELSE LET v   == DataGet(data, src)
             d1  == [o \in DOMAIN data \ {src} |-> data[o]]
             d2  == IF 0 <= dst /\ dst < dataSize /\ v # NoValue
                    THEN [o \in DOMAIN d1 \cup {dst} |->
                             IF o = dst THEN v ELSE d1[o]]
                    ELSE [o \in DOMAIN d1 \ {dst} |-> d1[o]]
         IN  DataMove(d2, dataSize, src + 1, dst + 1, n - 1)

\* the elements of the span [off, off + n)
DataRead(data, off, n) == [i \in 1 .. n |-> DataGet(data, off + i - 1)]

\* ======================================================= IntArrayMultiMap
\* A store value is [p, data, dataSize, dataNull]: m_partitions, the elements
\* of m_data, m_dataSize and whether m_data is nullptr.  Every operation
\* yields the store it leaves together with ub (memory was accessed outside
\* a vector or the buffer) and asserted (an LGRN_ASSERT condition was false).

\* IntArrayMultiMap(): default construction
IntArrayMultiMap_default ==
    [p        |-> PartitionDescStl_resize(0),
     data     |-> << >>,
     dataSize |-> 0,
     dataNull |-> TRUE]

IntArrayMultiMap_contains(mm, id) ==
    IF ~ PartitionDescStl_id_in_range(mm.p, id) THEN FALSE
    ELSE PartitionDescStl_exists(mm.p, id)

IntArrayMultiMap_ids_capacity(mm) == Len(mm.p.m_idToData)
IntArrayMultiMap_ids_count(mm) == mm.p.m_idCount
IntArrayMultiMap_data_capacity(mm) == mm.dataSize
IntArrayMultiMap_data_size(mm) == mm.p.m_dataUsed

\* ids_reserve(capacity) of a store that holds no partition yet
IntArrayMultiMap_ids_reserve(mm, capacity) ==
    [mm EXCEPT !.p = [PartitionDescStl_resize(capacity) EXCEPT
                         !.m_freeLast = mm.p.m_freeLast]]

\* the for loop of data_reserve over prtnRead; garbage is the id read when
\* prtnRead lies outside m_partitionToId
RECURSIVE data_reserve_loop(_, _, _, _, _, _, _, _, _)
data_reserve_loop(p, data, dataSize, newData, capacity, prtnRead, prtnWrite, writeOffset, garbage) ==
    IF ult(prtnRead, p.m_freeLast.m_partitionNum)
    THEN LET id == VecGet(p.m_partitionToId, prtnRead, garbage)
         IN  IF id # smc_null
             THEN LET rSpan  == p.m_idToData[id + 1]
                      offset == rSpan.m_offset
                      sz     == rSpan.m_size
                      moved  == DataConstruct(newData, capacity, writeOffset,
                                              DataRead(data, offset, sz))
                      clean  == [o \in {x \in DOMAIN moved : moved[x] # NoValue}
                                    |-> moved[o]]
                      p2     == IF prtnWrite # prtnRead
                                THEN [p EXCEPT
                                        !.m_partitionToId =
                                            VecPut(VecPut(@, prtnRead, smc_null),
                                                   prtnWrite, id),
                                        !.m_idToPartition = VecPut(@, id, prtnWrite),
                                        !.m_idToData      =
                                            VecPut(@, id,
                                                [rSpan EXCEPT !.m_offset = writeOffset])]
                                ELSE p
                      r      == data_reserve_loop(p2, data, dataSize, clean, capacity,
                                    prtnRead + 1, prtnWrite + 1, writeOffset + sz,
                                    garbage)
                  IN  [r EXCEPT
                         !.ub       = @ \/ ~ InRange(p.m_partitionToId, prtnRead)
                                        \/ writeOffset + sz > capacity
                                        \/ offset < 0 \/ offset + sz > dataSize,
                         !.asserted = @ \/ writeOffset > capacity]
             ELSE LET r == data_reserve_loop(p, data, dataSize, newData, capacity,
                               prtnRead + 1, prtnWrite, writeOffset, garbage)
                  IN  [r EXCEPT !.ub = @ \/ ~ InRange(p.m_partitionToId, prtnRead)]
    ELSE [p |-> p, newData |-> newData, writeOffset |-> writeOffset,
          ub |-> FALSE, asserted |-> FALSE]

\* void data_reserve(INT_T capacity)
IntArrayMultiMap_data_reserve(mm, capacity, garbage) ==
    IF ~ mm.dataNull
    THEN LET r == data_reserve_loop(mm.p, mm.data, mm.dataSize, << >>, capacity,
                                    0, 0, 0, garbage)
         IN  [mm       |-> [p        |-> [r.p EXCEPT
                                            !.m_free = << >>,
                                            !.m_freeLast.m_offset = r.writeOffset,
                                            !.m_freeLast.m_size   =
                                                partition_size_t(capacity - r.writeOffset)],
                            data     |-> r.newData,
                            dataSize |-> capacity,
                            dataNull |-> FALSE],
              ub       |-> r.ub,
              asserted |-> r.asserted]
    ELSE [mm       |-> [p        |-> [mm.p EXCEPT
                                        !.m_freeLast.m_offset = 0,
                                        !.m_freeLast.m_size   = partition_size_t(capacity)],
                        data     |-> << >>,
                        dataSize |-> capacity,
                        dataNull |-> FALSE],
          ub       |-> FALSE,
          asserted |-> FALSE]

\* IntArrayMultiMap(INT_T dataCapacity, INT_T idCapacity)
IntArrayMultiMap_ctor(dataCapacity, idCapacity) ==
    IntArrayMultiMap_ids_reserve(
        IntArrayMultiMap_data_reserve(IntArrayMultiMap_default, dataCapacity, smc_null).mm,
        idCapacity)

\* DATA_T* emplace(INT_T id, IT_T first, IT_T last) with [first, last) = vals;
\* ret is the offset of the returned pointer in m_data
IntArrayMultiMap_emplace(mm, id, vals) ==
    LET sz == partition_size_t(Len(vals))
        r  == PartitionDescStl_create(mm.p, id, sz)
    IN  [mm       |-> [mm EXCEPT
                         !.p    = r.p,
                         !.data = DataConstruct(@, mm.dataSize, r.prtn.m_offset, vals)],
         ret      |-> r.prtn.m_offset,
         ub       |-> r.ub \/ r.prtn.m_offset + Len(vals) > mm.dataSize,
         asserted |-> FALSE]

\* void erase(INT_T id)
IntArrayMultiMap_erase(mm, id) ==
    LET r == PartitionDescStl_erase(mm.p, id)
    IN  [mm       |-> [mm EXCEPT
                         !.p    = r.p,
                         !.data = DataDestroy(@, r.free.m_offset, r.free.m_size)],
         ub       |-> r.ub,
         asserted |-> FALSE]

\* the while loop of pack(maxMoveHint)
RECURSIVE pack_loop(_, _, _, _, _)
pack_loop(mm, maxMoveHint, moveTotal, ub, asserted) ==
    IF mm.p.m_free # << >> /\ moveTotal < maxMoveHint
    THEN LET r     == pack_step(mm.p, maxMoveHint - moveTotal)
             moved == r.moved
             data2 == IF moved.m_size # 0
                      THEN DataMove(mm.data, mm.dataSize, moved.m_offsetSrc,
                                    moved.m_offsetDst, moved.m_size)
                      ELSE mm.data
             ub2   == /\ moved.m_size # 0
                      /\ \/ moved.m_offsetDst < 0
                         \/ moved.m_offsetSrc + moved.m_size > mm.dataSize
         IN  pack_loop([mm EXCEPT !.p = r.p, !.data = data2], maxMoveHint,
                       moveTotal + moved.m_size,
                       ub \/ r.ub \/ ub2, asserted \/ r.asserted)
    ELSE [mm |-> mm, moveTotal |-> moveTotal, ub |-> ub, asserted |-> asserted]

\* void pack(std::size_t maxMoveHint = ~std::size_t(0))
IntArrayMultiMap_pack(mm, maxMoveHint) ==
    pack_loop(mm, maxMoveHint, 0, FALSE, FALSE)

\* Span<DATA_T> operator[](INT_T id), for an id inside the id maps: the
\* elements of the span it returns
IntArrayMultiMap_at(mm, id) ==
    IF ~ PartitionDescStl_exists(mm.p, id) \/ ~ PartitionDescStl_id_in_range(mm.p, id)
    THEN << >>
    ELSE LET span == mm.p.m_idToData[id + 1]
         IN  DataRead(mm.data, span.m_offset, span.m_size)

\* Span<DATA_T> operator[](INT_T id) for any id: ret is the span's elements,
\* ub tells that exists(id), which the condition evaluates first, read
\* m_idToPartition outside its bounds; garbage is what that read yields
IntArrayMultiMap_subscript(mm, id, garbage) ==
    LET partition == VecGet(mm.p.m_idToPartition, id, garbage)
    IN  [mm       |-> mm,
         ret      |-> IF partition = smc_null \/ ~ PartitionDescStl_id_in_range(mm.p, id)
                      THEN << >>
                      ELSE DataRead(mm.data, mm.p.m_idToData[id + 1].m_offset,
                                    mm.p.m_idToData[id + 1].m_size),
         ub       |-> ~ InRange(mm.p.m_idToPartition, id),
         asserted |-> FALSE]

\* ----------------------------------------- IdOwner, IdStorage, IdRefCount
\* conversion to COUNT_T = unsigned short
COUNT_T(x) == x % Pow2(16)

\* has_value() of a handle whose m_id is id
has_value(id) == id # id_null

\* the move constructor: IdOwner(IdOwner&& move) exchanges move.m_id for the
\* null id, IdStorage(IdStorage&& move) = default copies m_id and leaves
\* the source as it is
Owner_move_ctor(class, move) ==
    [self |-> move,
     move |-> IF class = "IdOwner" THEN id_null ELSE move]

\* ~IdOwner() and ~IdStorage(): whether the assertion ! has_value() fails
Owner_dtor(self) == has_value(self)

\* operator=(IdOwner&& move) and operator=(IdStorage&& move): asserted
\* tells that the assertion ! has_value() failed
Owner_move_assign(self, move) ==
    [self |-> move, move |-> id_null, asserted |-> has_value(self)]

\* IdRefCount::ref_add(id): the counts after it; the handle it returns
\* holds id
IdRefCount_ref_add(counts, id) ==
    LET sized == IF Len(counts) <= id
                 THEN counts \o [i \in 1 .. (id + 1 - Len(counts)) |-> 0]
                 ELSE counts
    IN  [sized EXCEPT ![id + 1] = COUNT_T(@ + 1)]

\* IdRefCount::ref_release(rStorage) of a handle whose m_id is storage
IdRefCount_ref_release(counts, storage) ==
    IF has_value(storage)
    THEN [counts |-> [counts EXCEPT ![storage + 1] = COUNT_T(@ - 1)], m_id |-> id_null]
    ELSE [counts |-> counts, m_id |-> storage]

\* ------------------------------------------------------- BitViewIdSet
\* BitViewIdSet<BITVIEW_T, ID_T, true>: ints are the integers of the bit
\* view it derives from, idBits the width of id_int_t, the underlying integer
\* type of ID_T.

\* the conversion of a word of the view to id_int_t, which the predicate of
\* empty() takes its argument as
id_int_t(value, idBits) == {b \in value : b < idBits}

\* IdCastIterator: ID_T(pos) of a position; the positions of the model are
\* below 2^31, which an id type of 32 bits or more holds unchanged
id_cast(pos, idBits) == IF idBits >= 31 THEN pos ELSE pos % Pow2(idBits)

BitViewIdSet_capacity(words) == BitView_size(words)

\* size(): Base_t::count()
BitViewIdSet_size(words) == BitView_count(words)

\* empty(): std::all_of over the integers, each compared with smc_emptyInt
BitViewIdSet_empty(words, idBits) ==
    \A i \in 1 .. Len(words) : id_int_t(words[i], idBits) = {}

\* contains(id): impl_contains
BitViewIdSet_contains(words, id) == BitView_test(words, id)

\* insert(id): the InsertResult next to the integers it leaves
BitViewIdSet_insert(words, id) ==
    [ints |-> BitView_set(words, id), first |-> id,
     second |-> ~ BitViewIdSet_contains(words, id)]

\* erase(id)
BitViewIdSet_erase(words, id) ==
    [ints |-> BitView_reset(words, id),
     ret  |-> IF BitViewIdSet_contains(words, id) THEN 1 ELSE 0]

\* clear(): Base_t::reset()
BitViewIdSet_clear(words) == BitView_reset_all(words)

\* for (ID_T id : set): the ones of the view, each cast to ID_T
BitViewIdSet_iterate(words, idBits) ==
    LET ones == BitViewValues_iterate(words, TRUE)
    IN  [i \in 1 .. Len(ones) |-> id_cast(ones[i], idBits)]

\* IdSetStl::resize(n): vec().resize(div_ceil(n, int_bitsize()), 0)
IdSetStl_resize(words, n) ==
    LET len == div_ceil(n, smc_bitSize)
    IN  IF len <= Len(words)
        THEN SubSeq(words, 1, len)
        ELSE words \o [i \in 1 .. (len - Len(words)) |-> {}]

\* ------------------------------------------------------ example circuits
\* ELogic
Low == 0
High == 1

\* gc_elemGate, the only element type the example has
gc_elemGate == 0

\* UserCircuit circuit(64, 64, 2) and the step limit of the example's tests
maxNodes == 64
maxSteps == 99

\* UserCircuit(maxElem, maxNodes, maxTypes): the vectors that are resized have
\* their elements, those that are only reserved have none; ids are the
\* lowest free ones of registries nothing was removed from
UserCircuit ==
    [m_elemCount   |-> 0,
     m_nodeCount   |-> 0,
     m_localToElem |-> << >>,
     m_elemToLocal |-> << >>,
     m_localGates  |-> << >>,
     m_elemConnect |-> << >>,
     m_nodeSubscribers |-> << >>,
     m_nodeValues  |-> [n \in 1 .. maxNodes |-> Low]]

\* create_nodes<N, ELogic>()
create_nodes(circuit, N) == [circuit EXCEPT !.m_nodeCount = @ + N]

\* gate_combinatinal(desc, in, out): m_localToElem, m_elemToLocal and
\* m_localGates are written at an index that is their size, and the
\* result is the one of a build in which those writes land in the storage
\* that was reserved
gate_combinatinal(circuit, desc, in, out) ==
    LET elemId  == circuit.m_elemCount
        localId == Len(circuit.m_localGates)
    IN  [circuit EXCEPT !.m_elemCount = @ + 1,
                        !.m_localToElem = Append(@, elemId),
                        !.m_elemToLocal = Append(@, localId),
                        !.m_localGates = Append(@, desc),
                        !.m_elemConnect = Append(@, <<out>> \o in)]

gate_NAND(circuit, in, out) ==
    gate_combinatinal(circuit, [m_op |-> "AND", m_invert |-> TRUE], in, out)

\* populate_pub_sub: the subscribers of node, the elements in ascending order
\* each written below the ones before it
RECURSIVE populate_subscribers(_, _, _, _)
populate_subscribers(circuit, node, elem, port) ==
    IF elem >= circuit.m_elemCount
    THEN << >>
    ELSE LET nodes == circuit.m_elemConnect[elem + 1]
         IN  IF port > Len(nodes)
             THEN populate_subscribers(circuit, node, elem + 1, 2)
             ELSE populate_subscribers(circuit, node, elem, port + 1)
                      \o (IF nodes[port] = node
                          THEN <<[m_id   |-> circuit.m_elemToLocal[elem + 1],
                                  m_type |-> gc_elemGate]>>
                          ELSE << >>)

populate_pub_sub(circuit) ==
    [circuit EXCEPT !.m_nodeSubscribers =
        [n \in 1 .. circuit.m_nodeCount |-> populate_subscribers(circuit, n - 1, 0, 2)]]

\* the value a gate computes from the values of its input nodes
gate_value(desc, inputs) ==
    LET highs == Cardinality({i \in 1 .. Len(inputs) : inputs[i] = High})
        value == CASE desc.m_op = "AND"  -> highs = Len(inputs)
                   [] desc.m_op = "OR"   -> highs > 0
                   [] desc.m_op = "XOR"  -> highs = 1
                   [] desc.m_op = "XOR2" -> highs % 2 = 1
    IN  value # desc.m_invert

\* mutant of update_combinational: a changed output is written to the node
\* values at once, where the gates visited later read it
RECURSIVE update_combinational_unbuffered(_, _, _, _, _, _)
update_combinational_unbuffered(toUpdate, i, circuit, nodeValues, upd, nodeUpdated) ==
    IF i > Len(toUpdate)
    THEN [ret |-> nodeUpdated, upd |-> upd]
    ELSE LET local == toUpdate[i]
             elem  == circuit.m_localToElem[local + 1]
             desc  == circuit.m_localGates[local + 1]
             connectedNodes == circuit.m_elemConnect[elem + 1]
             inputs == [k \in 1 .. (Len(connectedNodes) - 1) |->
                           nodeValues[connectedNodes[k + 1] + 1]]
             outLogic == IF gate_value(desc, inputs) THEN High ELSE Low
             out   == connectedNodes[1]
         IN  IF nodeValues[out + 1] # outLogic
             THEN update_combinational_unbuffered(
                      toUpdate, i + 1, circuit,
                      [nodeValues EXCEPT ![out + 1] = outLogic],
                      [m_nodeDirty     |-> BitView_set(upd.m_nodeDirty, out),
                       m_nodeNewValues |-> [upd.m_nodeNewValues EXCEPT ![out + 1] = outLogic]],
                      TRUE)
             ELSE update_combinational_unbuffered(
                      toUpdate, i + 1, circuit, nodeValues, upd, nodeUpdated)

\* update_combinational: upd is [m_nodeDirty, m_nodeNewValues], toUpdate the
\* dirty local ids in the order of the visit, from the i-th on
RECURSIVE update_combinational(_, _, _, _, _, _)
update_combinational(toUpdate, i, circuit, nodeValues, upd, nodeUpdated) ==
    IF i > Len(toUpdate)
    THEN [ret |-> nodeUpdated, upd |-> upd]
    ELSE LET local == toUpdate[i]
             elem  == circuit.m_localToElem[local + 1]
             desc  == circuit.m_localGates[local + 1]
             connectedNodes == circuit.m_elemConnect[elem + 1]
             inputs == [k \in 1 .. (Len(connectedNodes) - 1) |->
                           nodeValues[connectedNodes[k + 1] + 1]]
             outLogic == IF gate_value(desc, inputs) THEN High ELSE Low
             out   == connectedNodes[1]
         IN  IF nodeValues[out + 1] # outLogic
             THEN update_combinational(
                      toUpdate, i + 1, circuit, nodeValues,
                      [m_nodeDirty     |-> BitView_set(upd.m_nodeDirty, out),
                       m_nodeNewValues |-> [upd.m_nodeNewValues EXCEPT ![out + 1] = outLogic]],
                      TRUE)
             ELSE update_combinational(
                      toUpdate, i + 1, circuit, nodeValues, upd, nodeUpdated)

\* the notifications of update_nodes: every subscriber of every node of
\* toUpdate is set in the dirty bits of its type
RECURSIVE notify_subscribers(_, _, _)
notify_subscribers(subs, k, dirty) ==
    IF k > Len(subs) THEN dirty
    ELSE notify_subscribers(subs, k + 1, BitView_set(dirty, subs[k].m_id))

RECURSIVE update_nodes(_, _, _, _, _, _)
update_nodes(toUpdate, i, nodeSubs, newValues, values, localDirty) ==
    IF i > Len(toUpdate)
    THEN [values |-> values, localDirty |-> localDirty]
    ELSE LET node == toUpdate[i]
         IN  update_nodes(toUpdate, i + 1, nodeSubs, newValues,
                          [values EXCEPT ![node + 1] = newValues[node + 1]],
                          notify_subscribers(nodeSubs[node + 1], 1, localDirty))

\* UpdateNodes::assign(node, value)
UpdateNodes_assign(upd, node, value) ==
    [m_nodeDirty     |-> BitView_set(upd.m_nodeDirty, node),
     m_nodeNewValues |-> [upd.m_nodeNewValues EXCEPT ![node + 1] = value]]

\* setup_element_updater(): every existing element is set dirty
RECURSIVE setup_element_updater(_, _, _)
setup_element_updater(circuit, elem, dirty) ==
    IF elem >= circuit.m_elemCount THEN dirty
    ELSE setup_element_updater(
             circuit, elem + 1, BitView_set(dirty, circuit.m_elemToLocal[elem + 1]))

\* ================================================================ state
VARIABLES
    \* IdRegistryStl
    ints,           \* the std::vector<uint64_t> behind the free-slot bitset
    vecCap,         \* its capacity()
    noAutoResize,   \* template parameter NO_AUTO_RESIZE
    growth,         \* reallocation policy of the standard library's vector
    regOp,          \* the last registry call
    regArg,         \* its argument: id removed, n reserved, length of the range
    regOut,         \* the output array of the last create
    regFirst,       \* the position create returned (number of ids written)
    created,        \* history: ids returned by create and not removed since
    regFault,       \* "none", or how a remove call on an id that does not
                    \* exist ended: "abort", "crash" or "undefined"
    \* IntArrayMultiMap<unsigned int, DATA_T>
    m_partitions,   \* the PartitionDescStl
    m_data,         \* the constructed elements of the buffer, by offset
    m_dataSize,     \* number of elements the buffer was allocated for
    m_dataNull,     \* m_data == nullptr
    fault,          \* "none", or "abort", "crash", "undefined" after a call
                    \* that failed an assertion or left defined behaviour
    afterFault,     \* a call was made since fault became "undefined"
    mmOp,           \* the last store call
    mmArg,          \* its argument: id, capacity or move budget
    mmLen,          \* length of the data handed to the last emplace
    mmRet,          \* offset in m_data of the pointer emplace returned
    written         \* history: per id, the data of its last successful
                    \* emplace if it was not erased since

regVars == <<intBits, ints, vecCap, noAutoResize, growth,
             regOp, regArg, regOut, regFirst, created, regFault>>

mmVars == <<m_partitions, m_data, m_dataSize, m_dataNull, fault, afterFault,
            mmOp, mmArg, mmLen, mmRet, written>>

\* the hierarchical bitset under test, or the m_deleted of an IdRegistry
VARIABLES
    bitset,     \* the HierarchicalBitset
    hbOp,       \* the last call made on it
    hbArg,      \* that call's bit, count or size
    hbFill,     \* the fill flag of resize
    hbOut,      \* what take / create wrote to its output iterator
    hbRet,      \* what take returned
    hbFault,    \* "none", or how a call left defined behaviour
    hbResizes   \* the number of resize calls made so far

hbVars == <<bitset, hbOp, hbArg, hbFill, hbOut, hbRet, hbFault, hbResizes>>

\* an IdRefCount and the handles of a caller
VARIABLES
    handleClass,    \* the class of the handles: "IdOwner" or "IdStorage"
    refCounts,      \* the std::vector<unsigned short> of the IdRefCount
    owners,         \* per handle of the caller its m_id, or NoObject
    ownOp,          \* the last call
    ownArg,         \* the handle it was made on
    ownFrom,        \* the handle it moved from, or 0
    ownFault        \* "none", or "abort" / "undefined" after an assertion
                    \* of a handle failed

ownVars == <<handleClass, refCounts, owners, ownOp, ownArg, ownFrom, ownFault>>

\* An IdSetStl<ID_T> over integers of intBits bits, and the last call on it.
VARIABLES
    idBits,         \* width of id_int_t, the underlying integer type of ID_T
    idSet,          \* the integers of the set's bit view
    setOp,          \* "init" or the last call
    setArg,         \* the id handed to it, 0 where it takes none
    setRet,         \* the count it returned: erase(id), size(), count(id)
    setFlag,        \* the bool it returned: insert(id).second, empty(),
                    \* contains(id)
    setOut          \* the ids an iteration yielded

setVars == <<idBits, idSet, setOp, setArg, setRet, setFlag, setOut>>

\* The run of test_xor_nand of the circuits example.
VARIABLES
    vecChecked,     \* whether the standard library of the build checks the
                    \* index of std::vector::operator[] against size()
    circuit,        \* the UserCircuit
    updLogic,       \* UpdateNodes<ELogic>: m_nodeDirty and m_nodeNewValues
    localDirty,     \* updElems[gc_elemGate].m_localDirty
    cirPc,          \* "init", "run" (between calls), "loop" (in
                    \* step_until_stable), "crash"
    steps,          \* the locals of step_until_stable
    elemNotified,
    cirIn,          \* the values assigned to A and B before each call
    cirOut,         \* the value of the output node read after each call
    cirOrder        \* where a step may visit in any order: whether the last
                    \* step visited the dirty nodes, and the dirty elements,
                    \* in another order than the ascending one

cirVars == <<vecChecked, circuit, updLogic, localDirty, cirPc, steps,
             elemNotified, cirIn, cirOut, cirOrder>>

\* A pack call in progress, where it is followed pass by pass (mmOp is
\* "packing" from its entry to its return).
VARIABLE moveTotal  \* the local of pack: the elements the passes so far moved

pkVars == <<moveTotal>>

\* what the calls on the registries, the store and the bitsets leave alone
extVars == <<ownVars, setVars, cirVars, pkVars>>

vars == <<regVars, mmVars, hbVars, extVars>>

\* ------------------------------------------------------ registry inputs
\* ids handed to remove: the lowest ones and those around a word boundary
RemoveIds == {1, smc_bitSize - 1, smc_bitSize}
\* lengths of the ranges handed to create(first, last)
RangeLens == 0 .. MaxRange
\* arguments of reserve
ReserveSizes == {0, 1, smc_bitSize, smc_bitSize + 1, 2 * smc_bitSize + 1}

capacity == BitViewIdRegistry_capacity(ints)
size == BitViewIdRegistry_size(ints)
exists(id) == BitViewIdRegistry_exists(ints, id)

\* slots of the bitset that are free, found by testing every bit
FreeSlots(words) == {i \in 0 .. (BitView_size(words) - 1) : BitView_test(words, i)}
TakenSlots(words) == (0 .. (BitView_size(words) - 1)) \ FreeSlots(words)

RegInit ==
    /\ intBits = 64
    /\ ints = << >>
    /\ vecCap = 0
    /\ noAutoResize \in BOOLEAN
    /\ growth \in {"x2", "x1.5"}
    /\ regOp = "init"
    /\ regArg = 0
    /\ regOut = << >>
    /\ regFirst = 0
    /\ created = {}
    /\ regFault = "none"

\* ID_T create()
Reg_create ==
    LET r == IdRegistryStl_create(noAutoResize, growth,
                 [ints |-> ints, cap |-> vecCap], <<id_null>>, 0, 1)
    IN  /\ Len(r.ints) <= MaxWords
        /\ ints' = r.ints
        /\ vecCap' = r.cap
        /\ regOp' = "create"
        /\ regArg' = 1
        /\ regOut' = r.out
        /\ regFirst' = r.first
        /\ created' = created \cup {r.out[i] : i \in 1 .. r.first}
        /\ UNCHANGED <<intBits, noAutoResize, growth, regFault, mmVars, extVars, hbVars>>

\* IT_T create(IT_T first, ITB_T last) on an array of n elements
Reg_create_range(n) ==
    LET r == IdRegistryStl_create(noAutoResize, growth,
                 [ints |-> ints, cap |-> vecCap],
                 [i \in 1 .. n |-> id_null], 0, n)
    IN  /\ Len(r.ints) <= MaxWords
        /\ ints' = r.ints
        /\ vecCap' = r.cap
        /\ regOp' = "create_range"
        /\ regArg' = n
        /\ regOut' = r.out
        /\ regFirst' = r.first
        /\ created' = created \cup {r.out[i] : i \in 1 .. r.first}
        /\ UNCHANGED <<intBits, noAutoResize, growth, regFault, mmVars, extVars, hbVars>>

\* void remove(ID_T id), called as its contract demands on an existing id
Reg_remove(id) ==
    /\ exists(id)
    /\ ints' = BitView_set(ints, id)
    /\ regOp' = "remove"
    /\ regArg' = id
    /\ regOut' = << >>
    /\ regFirst' = 0
    /\ created' = created \ {id}
    /\ UNCHANGED <<intBits, vecCap, noAutoResize, growth, regFault, mmVars, extVars, hbVars>>

\* void reserve(std::size_t n)
Reg_reserve(n) ==
    LET r == IdRegistryStl_reserve(growth, [ints |-> ints, cap |-> vecCap], n)
    IN  /\ Len(r.ints) <= MaxWords
        /\ ints' = r.ints
        /\ vecCap' = r.cap
        /\ regOp' = "reserve"
        /\ regArg' = n
        /\ regOut' = << >>
        /\ regFirst' = 0
        /\ UNCHANGED <<intBits, noAutoResize, growth, regFault, created, mmVars, extVars, hbVars>>

\* behaviours of create and remove on a registry whose capacity was set up
\* by reserve calls that never ask for less than the current capacity
RegNext ==
    \/ Reg_create
    \/ \E n \in RangeLens : Reg_create_range(n)
    \/ \E id \in RemoveIds : Reg_remove(id)
    \/ \E n \in ReserveSizes :
          /\ n >= capacity
          /\ Reg_reserve(n)

\* no call has dropped a live id so far
NoIdLost == created = TakenSlots(ints)

\* the registry with reserve called for any size, below the capacity too,
\* followed up to the first call that drops a live id
RegReserveNext ==
    \/ NoIdLost /\ Reg_create
    \/ \E n \in RangeLens : NoIdLost /\ Reg_create_range(n)
    \/ \E id \in RemoveIds : NoIdLost /\ Reg_remove(id)
    \/ \E n \in ReserveSizes : NoIdLost /\ Reg_reserve(n)

\* ids handed to remove without regard to its contract: the ones above, the
\* lowest id and the null id
RemoveAnyIds == RemoveIds \cup {0, id_null}

\* void remove(ID_T id) with any id.  Where the assertion's condition is
\* false a build with assertions aborts before the bitset is touched; a
\* build without them goes on to set the bit, which for an id outside the
\* bitset is undefined behaviour that may kill the process.
Reg_remove_any(id) ==
    /\ regFault = "none"
    /\ regOp' = "remove"
    /\ regArg' = id
    /\ regOut' = << >>
    /\ regFirst' = 0
    /\ \/ /\ BitViewIdRegistry_remove(ints, id).asserted
          /\ regFault' = "abort"
          /\ UNCHANGED <<ints, created>>
       \/ /\ BitViewIdRegistry_remove(ints, id).asserted
          /\ BitViewIdRegistry_remove(ints, id).ub
          /\ regFault' = "crash"
          /\ UNCHANGED <<ints, created>>
       \/ /\ regFault' = IF BitViewIdRegistry_remove(ints, id).asserted
                         THEN "undefined" ELSE "none"
          /\ ints' = BitViewIdRegistry_remove(ints, id).ints
          /\ created' = created \ {id}
    /\ UNCHANGED <<intBits, vecCap, noAutoResize, growth, mmVars, extVars, hbVars>>

\* create, reserve and remove with any id, up to the first remove that
\* breaks its contract
RegRemoveNext ==
    \/ regFault = "none" /\ Reg_create
    \/ \E n \in RangeLens : regFault = "none" /\ Reg_create_range(n)
    \/ \E id \in RemoveAnyIds : Reg_remove_any(id)
    \/ \E n \in ReserveSizes :
          /\ regFault = "none"
          /\ n >= capacity
          /\ Reg_reserve(n)

\* the ids live when the array is filled (ManageIds has 3)
MaxLive == 3

\* the array of the ManageIds test: std::array<Id, 128>
ArrayLens == {2 * smc_bitSize}

\* create(begin(idsArray), end(idsArray)) on an auto-growing registry: the
\* range create with an array that needs more than one growth of the vector
Reg_create_array(n) ==
    LET r == IdRegistryStl_create(noAutoResize, growth,
                 [ints |-> ints, cap |-> vecCap],
                 [i \in 1 .. n |-> id_null], 0, n)
    IN  /\ ~ noAutoResize
        /\ size <= MaxLive
        /\ ints' = r.ints
        /\ vecCap' = r.cap
        /\ regOp' = "create_range"
        /\ regArg' = n
        /\ regOut' = r.out
        /\ regFirst' = r.first
        /\ created' = created \cup {r.out[i] : i \in 1 .. r.first}
        /\ UNCHANGED <<intBits, noAutoResize, growth, regFault, mmVars, extVars, hbVars>>

RegArrayNext ==
    \/ Reg_create
    \/ \E n \in RangeLens : Reg_create_range(n)
    \/ \E id \in RemoveIds : Reg_remove(id)
    \/ \E n \in ArrayLens : Reg_create_array(n)

\* ---------------------------------------------------------- bit views
\* the unsigned integer types of the BitView tests
IntWidths == {8, 16, 32, 64}

\* words of the caller's range before the view is made: 0, ~0 and 0x04
WordInputs == {{}, AllOnes, {2}}

\* positions handed to set(bit) and reset(bit)
BitInputs == {0, smc_bitSize - 1, smc_bitSize, (MaxSeq * smc_bitSize) - 1}

\* lgrn::bit_view(data) on a range of 0 .. MaxSeq integers of one width
BVInit ==
    /\ intBits \in IntWidths
    /\ \E n \in 0 .. MaxSeq : ints \in [1 .. n -> WordInputs]
    /\ vecCap = 0
    /\ noAutoResize = TRUE
    /\ growth = "x2"
    /\ regOp = "init"
    /\ regArg = 0
    /\ regOut = << >>
    /\ regFirst = 0
    /\ created = {}
    /\ regFault = "none"

\* void set(std::size_t bit), called inside the range as it asserts
BV_set(bit) ==
    /\ bit < BitView_size(ints)
    /\ ints' = BitView_set(ints, bit)
    /\ regOp' = "set"
    /\ regArg' = bit
    /\ UNCHANGED <<intBits, vecCap, noAutoResize, growth, regFault, regOut, regFirst,
                   created, mmVars, extVars, hbVars>>

\* void reset(std::size_t bit)
BV_reset(bit) ==
    /\ bit < BitView_size(ints)
    /\ ints' = BitView_reset(ints, bit)
    /\ regOp' = "reset"
    /\ regArg' = bit
    /\ UNCHANGED <<intBits, vecCap, noAutoResize, growth, regFault, regOut, regFirst,
                   created, mmVars, extVars, hbVars>>

\* void set()
BV_set_all ==
    /\ ints' = BitView_set_all(ints)
    /\ regOp' = "set_all"
    /\ regArg' = 0
    /\ UNCHANGED <<intBits, vecCap, noAutoResize, growth, regFault, regOut, regFirst,
                   created, mmVars, extVars, hbVars>>

\* void reset()
BV_reset_all ==
    /\ ints' = BitView_reset_all(ints)
    /\ regOp' = "reset_all"
    /\ regArg' = 0
    /\ UNCHANGED <<intBits, vecCap, noAutoResize, growth, regFault, regOut, regFirst,
                   created, mmVars, extVars, hbVars>>

BVNext ==
    \/ \E bit \in BitInputs : BV_set(bit)
    \/ \E bit \in BitInputs : BV_reset(bit)
    \/ BV_set_all
    \/ BV_reset_all

\* ------------------------------------------------- hierarchical bitsets
\* block types: the 8 bit blocks of the class comment and the default uint64_t
HBWidths == {8, 64}

\* sizes of bitsets of the tests (one row and several rows) and the empty one
HBSizes == {0, 20, 129}

\* positions handed to set(bit) and reset(bit) in the tests, one per block
HBBits == {0, 42, 128}

\* counts handed to take
TakeCounts == {0, 11}

\* the flat registry and the BitView, not used
RegIdle ==
    /\ ints = << >>
    /\ vecCap = 0
    /\ noAutoResize = FALSE
    /\ growth = "x2"
    /\ regOp = "init"
    /\ regArg = 0
    /\ regOut = << >>
    /\ regFirst = 0
    /\ created = {}
    /\ regFault = "none"

HBHistoryInit ==
    /\ hbOp = "init"
    /\ hbArg = 0
    /\ hbFill = FALSE
    /\ hbOut = << >>
    /\ hbRet = 0
    /\ hbFault = "none"
    /\ hbResizes = 0

\* no bitset is used
HBDefault ==
    /\ bitset = HierarchicalBitset_default
    /\ HBHistoryInit

\* HierarchicalBitset<BLOCK_INT_T> bitset(size, fill) or the default one
HBInit ==
    /\ intBits \in HBWidths
    /\ RegIdle
    /\ bitset \in {HierarchicalBitset_default}
                     \cup {HierarchicalBitset_ctor(n, f) :
                               n \in HBSizes, f \in BOOLEAN}
    /\ HBHistoryInit

\* void set(std::size_t bit), inside the range (it throws otherwise)
HB_set(bit) ==
    /\ hbFault = "none"
    /\ bit < bitset.m_size
    /\ bitset' = HierarchicalBitset_set(bitset, bit)
    /\ hbOp' = "set"
    /\ hbArg' = bit
    /\ hbFill' = FALSE
    /\ hbOut' = << >>
    /\ hbRet' = 0
    /\ UNCHANGED <<hbFault, hbResizes, regVars, mmVars, extVars>>

\* void reset(std::size_t bit)
HB_reset(bit) ==
    /\ hbFault = "none"
    /\ bit < bitset.m_size
    /\ bitset' = HierarchicalBitset_reset(bitset, bit)
    /\ hbOp' = "reset"
    /\ hbArg' = bit
    /\ hbFill' = FALSE
    /\ hbOut' = << >>
    /\ hbRet' = 0
    /\ UNCHANGED <<hbFault, hbResizes, regVars, mmVars, extVars>>

\* void set()
HB_set_all ==
    /\ hbFault = "none"
    /\ bitset' = HierarchicalBitset_set_all(bitset)
    /\ hbOp' = "set_all"
    /\ hbArg' = 0
    /\ hbFill' = FALSE
    /\ hbOut' = << >>
    /\ hbRet' = 0
    /\ UNCHANGED <<hbFault, hbResizes, regVars, mmVars, extVars>>

\* void reset()
HB_reset_all ==
    /\ hbFault = "none"
    /\ bitset' = HierarchicalBitset_reset_all(bitset)
    /\ hbOp' = "reset_all"
    /\ hbArg' = 0
    /\ hbFill' = FALSE
    /\ hbOut' = << >>
    /\ hbRet' = 0
    /\ UNCHANGED <<hbFault, hbResizes, regVars, mmVars, extVars>>

\* how a call that took ids or bits ends: a read outside m_blocks either
\* kills the process or goes on with whatever it read, and the bitset is not
\* followed after it
HB_return(r) ==
    \/ /\ ~ r.ub
       /\ bitset' = r.hb
       /\ hbOut' = r.out
       /\ hbRet' = r.count
       /\ UNCHANGED hbFault
    \/ /\ r.ub
       /\ hbFault' \in {"crash", "undefined"}
       /\ bitset' = r.hb
       /\ hbOut' = r.out
       /\ hbRet' = r.count

\* std::size_t take(out, count)
HB_take(count) ==
    /\ hbFault = "none"
    /\ HB_return(HierarchicalBitset_take(bitset, count, FALSE))
    /\ hbOp' = "take"
    /\ hbArg' = count
    /\ hbFill' = FALSE
    /\ UNCHANGED <<hbResizes, regVars, mmVars, extVars>>

\* void resize(size, fill)
HB_resize(n, fill) ==
    /\ hbFault = "none"
    /\ hbResizes < MaxResizes
    /\ hbResizes' = hbResizes + 1
    /\ bitset' = HierarchicalBitset_resize(bitset, n, fill)
    /\ hbOp' = "resize"
    /\ hbArg' = n
    /\ hbFill' = fill
    /\ hbOut' = << >>
    /\ hbRet' = 0
    /\ UNCHANGED <<hbFault, regVars, mmVars, extVars>>

\* sizes and positions of the bitsets that are only set and reset: those of
\* the tests and the first and last bits of blocks
ScanSizes == {0, 6, 20, 128, 129}
ScanBits == {0, 5, 7, 8, 42, 63, 64, 127, 128}

HBScanInit ==
    /\ intBits \in HBWidths
    /\ RegIdle
    /\ bitset \in {HierarchicalBitset_default}
                     \cup {HierarchicalBitset_ctor(n, f) :
                               n \in ScanSizes, f \in BOOLEAN}
    /\ HBHistoryInit

\* set and reset calls on a constructed bitset
HBBitsNext ==
    \/ \E bit \in ScanBits : HB_set(bit)
    \/ \E bit \in ScanBits : HB_reset(bit)
    \/ HB_set_all
    \/ HB_reset_all

\* sizes of the resizing test (20, 30, 6), the empty bitset and one of
\* several rows; positions in the kept, the filled and the last part
ResizeSizes == {0, 6, 20, 30, 129}
ResizeBits == {5, 25, 128}

HBResizeInit ==
    /\ intBits \in HBWidths
    /\ RegIdle
    /\ bitset \in {HierarchicalBitset_default}
                     \cup {HierarchicalBitset_ctor(n, f) :
                               n \in ResizeSizes, f \in BOOLEAN}
    /\ HBHistoryInit

\* set, reset and resize calls on a constructed bitset
HBResizeNext ==
    \/ \E bit \in ResizeBits : HB_set(bit)
    \/ \E bit \in ResizeBits : HB_reset(bit)
    \/ \E n \in ResizeSizes, fill \in BOOLEAN : HB_resize(n, fill)

HBNext ==
    \/ \E bit \in HBBits : HB_set(bit)
    \/ \E bit \in HBBits : HB_reset(bit)
    \/ HB_set_all
    \/ HB_reset_all
    \/ \E count \in TakeCounts : HB_take(count)
    \/ \E n \in HBSizes, fill \in BOOLEAN : HB_resize(n, fill)

\* ------------------------------------- IdRegistry (hierarchical bitset)
\* capacities handed to IdRegistry(capacity) and reserve(n)
IdRegCapacities == {64, 65}

\* ids handed to remove
IdRegRemoveIds == {1, 64}

\* lengths of the ranges handed to create(out, count)
IdRegCounts == {0, MaxRange}

\* IdRegistry(capacity), which calls reserve(capacity) on the default
\* constructed m_deleted; created is the history of the live ids
IdRegInit ==
    /\ intBits = 64
    /\ ints = << >>
    /\ vecCap = 0
    /\ noAutoResize \in BOOLEAN
    /\ growth = "x2"
    /\ regOp = "init"
    /\ regArg = 0
    /\ regOut = << >>
    /\ regFirst = 0
    /\ created = {}
    /\ regFault = "none"
    /\ bitset \in {IdRegistry_reserve(HierarchicalBitset_default, n) :
                      n \in IdRegCapacities}
    /\ HBHistoryInit

\* how create(out, count) ends, r being what the code computes: a failed
\* assertion ends the process where assertions are compiled in and is skipped
\* where they are not; a read outside m_blocks either kills the process or
\* goes on, and the registry is not followed after it
IdReg_return(r, count) ==
    /\ IdRegistry_capacity(r.hb) <= MaxCapacity
    /\ \/ /\ r.asserted
          /\ hbFault' = "abort"
          /\ hbOut' = << >>
          /\ hbRet' = count
          /\ UNCHANGED <<bitset, created>>
       \/ /\ ~ r.ub
          /\ bitset' = r.hb
          /\ hbOut' = r.out
          /\ hbRet' = r.count
          /\ created' = created \cup {r.out[i] : i \in DOMAIN r.out}
          /\ UNCHANGED hbFault
       \/ /\ r.ub
          /\ hbFault' \in {"crash", "undefined"}
          /\ bitset' = r.hb
          /\ hbOut' = r.out
          /\ hbRet' = r.count
          /\ created' = created \cup {r.out[i] : i \in DOMAIN r.out}

\* void create(out, count)
IdReg_create_call(op, count) ==
    /\ hbFault = "none"
    /\ hbResizes' = IF bitset.m_count < count THEN hbResizes + 1 ELSE hbResizes
    /\ hbResizes' <= MaxResizes
    /\ hbOp' = op
    /\ hbArg' = count
    /\ hbFill' = FALSE
    /\ IdReg_return(IdRegistry_create(noAutoResize, bitset, count), count)
    /\ UNCHANGED <<intBits, ints, vecCap, noAutoResize, growth, regFault, regOp,
                   regArg, regOut, regFirst, mmVars, extVars>>

\* ID_T create()
IdReg_create == IdReg_create_call("create", 1)

\* void create(out, count)
IdReg_create_range(count) == IdReg_create_call("create_range", count)

\* void remove(ID_T id), called as its assertion demands on an existing id
IdReg_remove(id) ==
    /\ hbFault = "none"
    /\ bitset.m_rows # << >>
    /\ id < IdRegistry_capacity(bitset)
    /\ IdRegistry_exists(bitset, id)
    /\ bitset' = IdRegistry_remove(bitset, id)
    /\ created' = created \ {id}
    /\ hbOp' = "remove"
    /\ hbArg' = id
    /\ hbFill' = FALSE
    /\ hbOut' = << >>
    /\ hbRet' = 0
    /\ UNCHANGED <<intBits, ints, vecCap, noAutoResize, growth, regFault, regOp,
                   regArg, regOut, regFirst, hbFault, hbResizes, mmVars, extVars>>

\* void reserve(std::size_t n), never asked for less than the capacity
IdReg_reserve(n) ==
    /\ hbFault = "none"
    /\ n >= IdRegistry_capacity(bitset)
    /\ hbResizes < MaxResizes
    /\ hbResizes' = hbResizes + 1
    /\ bitset' = IdRegistry_reserve(bitset, n)
    /\ hbOp' = "reserve"
    /\ hbArg' = n
    /\ hbFill' = TRUE
    /\ hbOut' = << >>
    /\ hbRet' = 0
    /\ UNCHANGED <<regVars, hbFault, mmVars, extVars>>

\* the ids the registry holds are those created and not removed: no call has
\* handed out a live id or an id outside the capacity so far
IdRegNoIdLost ==
    created = {id \in 0 .. (IdRegistry_capacity(bitset) - 1) :
                  IdRegistry_exists(bitset, id)}

\* the registry is followed up to the first call that breaks IdRegNoIdLost
IdRegNext ==
    \/ IdRegNoIdLost /\ IdReg_create
    \/ \E count \in IdRegCounts : IdRegNoIdLost /\ IdReg_create_range(count)
    \/ \E id \in IdRegRemoveIds : IdRegNoIdLost /\ IdReg_remove(id)
    \/ \E n \in IdRegCapacities : IdRegNoIdLost /\ IdReg_reserve(n)

\* --------------------------------------------------------- store inputs
Ids == 0 .. (MaxIds - 1)
\* the data handed to emplace(id, first, last): n elements that tell the id
\* and the position
Payload(id, n) == [i \in 1 .. n |-> 10 * id + i]
\* what written holds for an id without data
NoPayload == <<NoValue>>
\* capacities handed to the constructor and to data_reserve; the last one
\* does not fit partition_size_t
InitDataCapacities == {3}
DataCapacities == {3, 5, Pow2(PartitionSizeBits) + 4}
\* move budgets handed to pack; size_max is the default argument
PackBudgets == {0, 1, size_max}
\* what a read outside m_partitionToId may yield
GarbageIds == {smc_null, 0}

Store == [p |-> m_partitions, data |-> m_data,
          dataSize |-> m_dataSize, dataNull |-> m_dataNull]

contains(id) == IntArrayMultiMap_contains(Store, id)
ids_count == IntArrayMultiMap_ids_count(Store)
ids_capacity == IntArrayMultiMap_ids_capacity(Store)
data_size == IntArrayMultiMap_data_size(Store)
data_capacity == IntArrayMultiMap_data_capacity(Store)
at(id) == IntArrayMultiMap_at(Store, id)

SetStore(mm) ==
    /\ m_partitions' = mm.p
    /\ m_data' = mm.data
    /\ m_dataSize' = mm.dataSize
    /\ m_dataNull' = mm.dataNull

StoreIs(mm) ==
    /\ m_partitions = mm.p
    /\ m_data = mm.data
    /\ m_dataSize = mm.dataSize
    /\ m_dataNull = mm.dataNull

MMHistoryInit ==
    /\ fault = "none"
    /\ afterFault = FALSE
    /\ mmOp = "init"
    /\ mmArg = 0
    /\ mmLen = 0
    /\ mmRet = 0
    /\ written = [id \in Ids |-> NoPayload]

\* IntArrayMultiMap()
MMDefault ==
    /\ StoreIs(IntArrayMultiMap_default)
    /\ MMHistoryInit

\* IntArrayMultiMap(dataCapacity, idCapacity)
MMInit ==
    /\ \E c \in InitDataCapacities : StoreIs(IntArrayMultiMap_ctor(c, MaxIds))
    /\ MMHistoryInit

\* a call can be made: the process runs, and no call has been made yet
\* since a call left defined behaviour
Callable ==
    \/ fault = "none"
    \/ fault = "undefined" /\ ~ afterFault

\* how a call that computed r ends.  Where an LGRN_ASSERT condition was
\* false, a build with assertions aborts the process.  An access outside a
\* vector or the buffer is undefined behaviour, which may kill the process.
\* Otherwise the call returns with what its writes produced, which after a
\* false assertion in a build without assertions, or after undefined
\* behaviour, is marked as such from there on.
MM_return(r, w) ==
    \/ /\ r.asserted
       /\ fault' = "abort"
       /\ UNCHANGED <<m_partitions, m_data, m_dataSize, m_dataNull, written,
                      afterFault>>
    \/ /\ r.ub
       /\ fault' = "crash"
       /\ UNCHANGED <<m_partitions, m_data, m_dataSize, m_dataNull, written,
                      afterFault>>
    \/ /\ fault' = IF r.ub \/ r.asserted THEN "undefined" ELSE fault
       /\ afterFault' = (fault = "undefined")
       /\ SetStore(r.mm)
       /\ written' = w

\* emplace(id, first, last) with n elements, called as its assertions demand
\* on an id in range that holds no data: the lowest such id, as a registry's
\* create() hands it out
MM_emplace(id, n) ==
    LET r == IntArrayMultiMap_emplace(Store, id, Payload(id, n))
    IN  /\ Callable
        /\ PartitionDescStl_id_in_range(m_partitions, id)
        /\ ~ PartitionDescStl_exists(m_partitions, id)
        /\ \A lower \in 0 .. (id - 1) : PartitionDescStl_exists(m_partitions, lower)
        /\ mmOp' = "emplace"
        /\ mmArg' = id
        /\ mmLen' = n
        /\ mmRet' = r.ret
        /\ MM_return(r, IF n <= m_partitions.m_freeLast.m_size
                        THEN [written EXCEPT ![id] = Payload(id, n)]
                        ELSE written)
        /\ UNCHANGED <<regVars, hbVars, extVars>>

\* erase(id), called as its assertion demands on an id that holds data
MM_erase(id) ==
    /\ Callable
    /\ contains(id)
    /\ mmOp' = "erase"
    /\ mmArg' = id
    /\ mmLen' = 0
    /\ mmRet' = 0
    /\ MM_return(IntArrayMultiMap_erase(Store, id),
                 [written EXCEPT ![id] = NoPayload])
    /\ UNCHANGED <<regVars, hbVars, extVars>>

\* pack(maxMoveHint)
MM_pack(maxMoveHint) ==
    /\ Callable
    /\ IntArrayMultiMap_pack(Store, maxMoveHint)
          .mm.p.m_freeLast.m_partitionCount <= MaxMerged
    /\ mmOp' = "pack"
    /\ mmArg' = maxMoveHint
    /\ mmLen' = 0
    /\ mmRet' = 0
    /\ MM_return(IntArrayMultiMap_pack(Store, maxMoveHint), written)
    /\ UNCHANGED <<regVars, hbVars, extVars>>

\* data_reserve(capacity) with room for the data the store holds
MM_data_reserve(c) ==
    /\ Callable
    /\ c >= data_size
    /\ mmOp' = "data_reserve"
    /\ mmArg' = c
    /\ mmLen' = 0
    /\ mmRet' = 0
    /\ IF m_partitions.m_freeLast.m_partitionNum < 0
       THEN \* the loop reads 2^31 or more elements past m_partitionToId
            /\ fault' = "crash"
            /\ UNCHANGED <<m_partitions, m_data, m_dataSize, m_dataNull, written,
                           afterFault>>
       ELSE \E g \in GarbageIds :
               /\ g = smc_null \/ ~ ult(m_partitions.m_freeLast.m_partitionNum,
                                        Len(m_partitions.m_partitionToId) + 1)
               /\ MM_return(IntArrayMultiMap_data_reserve(Store, c, g), written)
    /\ UNCHANGED <<regVars, hbVars, extVars>>

MMNext ==
    \/ \E id \in Ids, n \in 1 .. MaxLen : MM_emplace(id, n)
    \/ \E id \in Ids : MM_erase(id)
    \/ \E n \in PackBudgets : MM_pack(n)
    \/ \E c \in DataCapacities : MM_data_reserve(c)
\* -------------------------------------------------------------- id sets
\* the underlying integer types of the ids of the test (uint64_t) and of the
\* circuits example (uint32_t)
IdWidths == {32, 64}

\* arguments of resize(n) after construction: none, the 40 of the test, and
\* one that needs a second integer
SetSizes == {0, 40, 65}

\* ids of the test and ids around the width of the id type and of a word
SetIds == {0, 2, 9, 31, 32, 64}

\* no id set is used
SetDefault ==
    /\ idBits = 64
    /\ idSet = << >>
    /\ setOp = "init"
    /\ setArg = 0
    /\ setRet = 0
    /\ setFlag = FALSE
    /\ setOut = << >>

\* lgrn::IdSetStl<Id> set; set.resize(n);
SetInit ==
    /\ idBits \in IdWidths
    /\ \E n \in SetSizes :
          idSet = IdSetStl_resize(<< >>, n)
    /\ setOp = "init"
    /\ setArg = 0
    /\ setRet = 0
    /\ setFlag = FALSE
    /\ setOut = << >>

\* how a call on the set returns
Set_return(op, id, words, ret, flag, out) ==
    /\ idSet' = words
    /\ setOp' = op
    /\ setArg' = id
    /\ setRet' = ret
    /\ setFlag' = flag
    /\ setOut' = out
    /\ UNCHANGED <<idBits, regVars, mmVars, hbVars, ownVars, cirVars, pkVars>>

\* insert(id), with an id below capacity() as BitView::set asserts that
Set_insert(id) ==
    /\ id < BitViewIdSet_capacity(idSet)
    /\ LET r == BitViewIdSet_insert(idSet, id)
       IN  Set_return("insert", id, r.ints, r.first, r.second, << >>)

\* erase(id)
Set_erase(id) ==
    /\ id < BitViewIdSet_capacity(idSet)
    /\ LET r == BitViewIdSet_erase(idSet, id)
       IN  Set_return("erase", id, r.ints, r.ret, FALSE, << >>)

\* clear()
Set_clear == Set_return("clear", 0, BitViewIdSet_clear(idSet), 0, FALSE, << >>)

\* contains(id)
Set_contains(id) ==
    /\ id < BitViewIdSet_capacity(idSet)
    /\ Set_return("contains", id, idSet, 0, BitViewIdSet_contains(idSet, id), << >>)

\* size()
Set_size == Set_return("size", 0, idSet, BitViewIdSet_size(idSet), FALSE, << >>)

\* empty()
Set_empty ==
    Set_return("empty", 0, idSet, 0, BitViewIdSet_empty(idSet, idBits), << >>)

\* for (Id id : set)
Set_iterate ==
    Set_return("iterate", 0, idSet, 0, FALSE, BitViewIdSet_iterate(idSet, idBits))

SetNext ==
    \/ \E id \in SetIds : Set_insert(id)
    \/ \E id \in SetIds : Set_erase(id)
    \/ Set_clear
    \/ \E id \in SetIds : Set_contains(id)
    \/ Set_size
    \/ Set_empty
    \/ Set_iterate

\* ------------------------------------------------- handles and counts
\* the handles a caller holds, the ids it counts references of
MaxOwners == 2
Owners == 1 .. MaxOwners
RefIds == {0, 2}
\* owners[h] of a handle that is not constructed, or was destroyed
NoObject == -1

\* no IdRefCount is used
OwnDefault ==
    /\ handleClass = "IdOwner"
    /\ refCounts = << >>
    /\ owners = [h \in Owners |-> NoObject]
    /\ ownOp = "init"
    /\ ownArg = 0
    /\ ownFrom = 0
    /\ ownFault = "none"

\* IdRefCount<Id> refCounts; and no handle yet
OwnInit ==
    /\ handleClass \in {"IdOwner", "IdStorage"}
    /\ refCounts = << >>
    /\ owners = [h \in Owners |-> NoObject]
    /\ ownOp = "init"
    /\ ownArg = 0
    /\ ownFrom = 0
    /\ ownFault = "none"

\* how a call on handle h ends that leaves the counts as counts and the
\* handles as hs.  Where an assertion failed a build with assertions
\* aborts, a build without them returns.
Own_return(op, h, from, asserted, counts, hs) ==
    /\ ownOp' = op
    /\ ownArg' = h
    /\ ownFrom' = from
    /\ \/ /\ asserted
          /\ ownFault' = "abort"
          /\ UNCHANGED <<refCounts, owners>>
       \/ /\ ownFault' = IF asserted THEN "undefined" ELSE "none"
          /\ refCounts' = counts
          /\ owners' = hs
    /\ UNCHANGED <<handleClass, regVars, mmVars, hbVars, setVars, cirVars, pkVars>>

\* Owner_t h;
Own_construct(h) ==
    /\ ownFault = "none"
    /\ owners[h] = NoObject
    /\ Own_return("construct", h, 0, FALSE, refCounts, [owners EXCEPT ![h] = id_null])

\* Owner_t h = refCounts.ref_add(id); for a handle not constructed yet,
\* h = refCounts.ref_add(id); for a constructed one
Own_ref_add(h, id) ==
    /\ ownFault = "none"
    /\ IF owners[h] = NoObject
       THEN Own_return("ref_add", h, 0, FALSE, IdRefCount_ref_add(refCounts, id),
                       [owners EXCEPT ![h] = id])
       ELSE Own_return("ref_add", h, 0, Owner_move_assign(owners[h], id).asserted,
                       IdRefCount_ref_add(refCounts, id),
                       [owners EXCEPT ![h] = Owner_move_assign(owners[h], id).self])

\* Owner_t h(std::move(from));
Own_move_construct(h, from) ==
    /\ ownFault = "none"
    /\ h # from
    /\ owners[h] = NoObject
    /\ owners[from] # NoObject
    /\ Own_return("move_construct", h, from, FALSE, refCounts,
                  [owners EXCEPT ![h] = Owner_move_ctor(handleClass, owners[from]).self,
                                 ![from] = Owner_move_ctor(handleClass, owners[from]).move])

\* h = std::move(from);
Own_move_assign(h, from) ==
    /\ ownFault = "none"
    /\ h # from
    /\ owners[h] # NoObject
    /\ owners[from] # NoObject
    /\ Own_return("move_assign", h, from, Owner_move_assign(owners[h], owners[from]).asserted,
                  refCounts,
                  [owners EXCEPT ![h] = Owner_move_assign(owners[h], owners[from]).self,
                                 ![from] = Owner_move_assign(owners[h], owners[from]).move])

\* refCounts.ref_release(h);
Own_ref_release(h) ==
    /\ ownFault = "none"
    /\ owners[h] # NoObject
    /\ Own_return("ref_release", h, 0, FALSE,
                  IdRefCount_ref_release(refCounts, owners[h]).counts,
                  [owners EXCEPT ![h] = IdRefCount_ref_release(refCounts, owners[h]).m_id])

\* the handle h goes out of scope
Own_destroy(h) ==
    /\ ownFault = "none"
    /\ owners[h] # NoObject
    /\ Own_return("destroy", h, 0, Owner_dtor(owners[h]), refCounts,
                  [owners EXCEPT ![h] = NoObject])

\* the handles that hold id, and whether every count is the number of them
Holders(id) == {h \in Owners : owners[h] = id}
CountsAreHolders ==
    /\ \A i \in DOMAIN refCounts : refCounts[i] = Cardinality(Holders(i - 1))
    /\ \A h \in Owners :
          owners[h] \in {NoObject, id_null} \/ owners[h] < Len(refCounts)

\* the calls of a caller on its handles, up to the first one that leaves a
\* count different from the number of handles
OwnNext ==
    \/ \E h \in Owners : CountsAreHolders /\ Own_construct(h)
    \/ \E h \in Owners, id \in RefIds : CountsAreHolders /\ Own_ref_add(h, id)
    \/ \E h, from \in Owners : CountsAreHolders /\ Own_move_construct(h, from)
    \/ \E h, from \in Owners : CountsAreHolders /\ Own_move_assign(h, from)
    \/ \E h \in Owners : CountsAreHolders /\ Own_ref_release(h)
    \/ \E h \in Owners : CountsAreHolders /\ Own_destroy(h)

\* ------------------------------------------- the XOR of four NAND gates
\* number of assignments of the two inputs that are followed
MaxAssigns == 4

\* the nodes of test_xor_nand, in the order create_nodes hands them out
NodeA == 0
NodeB == 1
NodeC == 2
NodeD == 3
NodeE == 4
NodeOut == 5

CirIdle ==
    /\ circuit = UserCircuit
    /\ updLogic = [m_nodeDirty |-> << >>, m_nodeNewValues |-> << >>]
    /\ localDirty = << >>
    /\ cirPc = "init"
    /\ steps = 0
    /\ elemNotified = FALSE
    /\ cirIn = << >>
    /\ cirOut = << >>
    /\ cirOrder = << >>

\* no circuit is built
CirDefault == vecChecked = FALSE /\ CirIdle

\* UserCircuit circuit(64, 64, 2); in a build of either kind
CirInit == vecChecked \in BOOLEAN /\ CirIdle

\* build_begin() .. setup_logic_updater() of test_xor_nand.  The first
\* gate_NAND writes m_localToElem[0], m_elemToLocal[0] and m_localGates[0]
\* of vectors of size 0: undefined behaviour, which a library that checks the
\* index ends with an abort and an unchecked one with a write into the
\* reserved storage.
Cir_build ==
    /\ cirPc = "init"
    /\ IF vecChecked
       THEN /\ cirPc' = "crash"
            /\ UNCHANGED <<circuit, updLogic, localDirty>>
       ELSE LET nodes == create_nodes(circuit, 6)
                nand0 == gate_NAND(nodes, <<NodeA, NodeB>>, NodeC)
                nand1 == gate_NAND(nand0, <<NodeA, NodeC>>, NodeD)
                nand2 == gate_NAND(nand1, <<NodeC, NodeB>>, NodeE)
                nand3 == gate_NAND(nand2, <<NodeD, NodeE>>, NodeOut)
                built == populate_pub_sub(nand3)
            IN  /\ circuit' = built
                /\ localDirty' = setup_element_updater(built, 0, <<{}>>)
                /\ updLogic' = [m_nodeDirty     |-> [w \in 1 .. ((maxNodes \div 64) + 1) |-> {}],
                                m_nodeNewValues |-> [n \in 1 .. maxNodes |-> Low]]
                /\ cirPc' = "run"
    /\ UNCHANGED <<vecChecked, steps, elemNotified, cirIn, cirOut,
                   cirOrder, regVars, mmVars, hbVars, ownVars, setVars, pkVars>>

\* updLogic.assign(A, a); updLogic.assign(B, b); and the entry of
\* step_until_stable(circuit, updLogic, updElems, 99)
Cir_assign(a, b) ==
    /\ cirPc = "run"
    /\ Len(cirIn) < MaxAssigns
    /\ updLogic' = UpdateNodes_assign(UpdateNodes_assign(updLogic, NodeA, a), NodeB, b)
    /\ cirIn' = Append(cirIn, <<a, b>>)
    /\ steps' = 0
    /\ elemNotified' = TRUE
    /\ cirPc' = "loop"
    /\ UNCHANGED <<vecChecked, circuit, localDirty, cirOut,
                   cirOrder, regVars, mmVars, hbVars, ownVars, setVars, pkVars>>

\* one turn of the while loop of step_until_stable
Cir_step ==
    /\ cirPc = "loop"
    /\ elemNotified /\ steps < maxSteps
    /\ LET nodes == update_nodes(BitViewValues_iterate(updLogic.m_nodeDirty, TRUE), 1,
                                 circuit.m_nodeSubscribers, updLogic.m_nodeNewValues,
                                 circuit.m_nodeValues, localDirty)
           gates == update_combinational(
                        BitViewValues_iterate(nodes.localDirty, TRUE), 1, circuit,
                        nodes.values,
                        [updLogic EXCEPT !.m_nodeDirty = BitView_reset_all(@)],
                        FALSE)
       IN  /\ circuit' = [circuit EXCEPT !.m_nodeValues = nodes.values]
           /\ updLogic' = gates.upd
           /\ elemNotified' = gates.ret
           /\ localDirty' = BitView_reset_all(nodes.localDirty)
    /\ steps' = steps + 1
    /\ UNCHANGED <<vecChecked, cirPc, cirIn, cirOut,
                   cirOrder, regVars, mmVars, hbVars, ownVars, setVars, pkVars>>

\* the return of step_until_stable and the read of the output node
Cir_return ==
    /\ cirPc = "loop"
    /\ ~ (elemNotified /\ steps < maxSteps)
    /\ cirOut' = Append(cirOut, circuit.m_nodeValues[NodeOut + 1])
    /\ cirPc' = "run"
    /\ UNCHANGED <<vecChecked, circuit, updLogic, localDirty, steps, elemNotified,
                   cirIn, cirOrder, regVars, mmVars, hbVars, ownVars, setVars, pkVars>>

CirNext ==
    \/ Cir_build
    \/ \E a, b \in {Low, High} : Cir_assign(a, b)
    \/ Cir_step
    \/ Cir_return

\* ------------------------------------------- steps in any visiting order
\* Circuits of three gates over four nodes: node 0 is written from outside,
\* and gate k is the one publisher of node 1 + k.
GateOps ==
    {[m_op |-> "AND", m_invert |-> TRUE], [m_op |-> "XOR2", m_invert |-> FALSE]}

\* the input nodes a gate may be connected to: the node written from
\* outside and the first gate's output, or the outputs of two gates
GateInputs == {<<0, 1>>, <<1, 3>>, <<2, 3>>}

MaxTurns == 2

\* the sequences that hold the elements of seq in some order
Perms(seq) ==
    {[i \in 1 .. Len(seq) |-> seq[f[i]]] :
        f \in {g \in [1 .. Len(seq) -> 1 .. Len(seq)] :
                  \A i, j \in 1 .. Len(seq) : i # j => g[i] # g[j]}}

\* the body of the while loop of step_until_stable with the dirty nodes
\* visited in the order nodeOrder and the dirty elements in the order
\* elemOrder
step_in_order(c, upd, dirty, nodeOrder, elemOrder) ==
    LET nodes == update_nodes(nodeOrder, 1, c.m_nodeSubscribers,
                              upd.m_nodeNewValues, c.m_nodeValues, dirty)
        gates == update_combinational(
                     elemOrder, 1, c, nodes.values,
                     [upd EXCEPT !.m_nodeDirty = BitView_reset_all(@)], FALSE)
    IN  [values |-> nodes.values, notified |-> nodes.localDirty,
         upd |-> gates.upd, ret |-> gates.ret]

\* the elements update_nodes leaves dirty, which is the same set for every
\* order of its nodes
dirty_after_nodes(c, upd, dirty) ==
    update_nodes(BitViewValues_iterate(upd.m_nodeDirty, TRUE), 1,
                 c.m_nodeSubscribers, upd.m_nodeNewValues, c.m_nodeValues,
                 dirty).localDirty

\* a circuit built as test_xor_nand builds its own, in a build whose vectors
\* do not check the index, with every element dirty
OrdInit ==
    /\ vecChecked = FALSE
    /\ \E d0, d1, d2 \in GateOps : \E in0, in1, in2 \in GateInputs :
          LET nodes == create_nodes(UserCircuit, 4)
              g0    == gate_combinatinal(nodes, d0, in0, 1)
              g1    == gate_combinatinal(g0, d1, in1, 2)
              g2    == gate_combinatinal(g1, d2, in2, 3)
              built == populate_pub_sub(g2)
          IN  /\ circuit = built
              /\ localDirty = setup_element_updater(built, 0, <<{}>>)
    /\ updLogic = [m_nodeDirty     |-> [w \in 1 .. ((maxNodes \div 64) + 1) |-> {}],
                   m_nodeNewValues |-> [n \in 1 .. maxNodes |-> Low]]
    /\ cirPc = "order"
    /\ steps = 0
    /\ elemNotified = TRUE
    /\ cirIn = << >>
    /\ cirOut = << >>
    /\ cirOrder = << >>

\* updLogic.assign(node, value) on the node written from outside
Ord_assign(node, value) ==
    /\ cirPc = "order"
    /\ steps < MaxTurns
    /\ updLogic' = UpdateNodes_assign(updLogic, node, value)
    /\ UNCHANGED <<vecChecked, circuit, localDirty, cirPc, steps, elemNotified,
                   cirIn, cirOut, cirOrder, regVars, mmVars, hbVars, ownVars,
                   setVars, pkVars>>

\* one turn of the loop, with the ranges handed to update_nodes and
\* update_combinational in the orders nodeOrder and elemOrder
Ord_step(nodeOrder, elemOrder) ==
    LET r == step_in_order(circuit, updLogic, localDirty, nodeOrder, elemOrder)
    IN  /\ cirPc = "order"
        /\ steps < MaxTurns
        /\ circuit' = [circuit EXCEPT !.m_nodeValues = r.values]
        /\ updLogic' = r.upd
        /\ elemNotified' = r.ret
        /\ localDirty' = BitView_reset_all(r.notified)
        /\ steps' = steps + 1
        /\ cirOrder' = <<nodeOrder # BitViewValues_iterate(updLogic.m_nodeDirty, TRUE),
                         elemOrder # BitViewValues_iterate(r.notified, TRUE)>>
        /\ UNCHANGED <<vecChecked, cirPc, cirIn, cirOut, regVars, mmVars,
                       hbVars, ownVars, setVars, pkVars>>

OrdNext ==
    \/ \E value \in {Low, High} : Ord_assign(0, value)
    \/ LET nodeOrders == Perms(BitViewValues_iterate(updLogic.m_nodeDirty, TRUE))
           elemOrders == Perms(BitViewValues_iterate(
                                   dirty_after_nodes(circuit, updLogic, localDirty), TRUE))
       IN  \E nodeOrder \in nodeOrders : \E elemOrder \in elemOrders :
              Ord_step(nodeOrder, elemOrder)

\* no pack call is in progress
PkDefault == moveTotal = 0

\* neither handles nor an id set nor a circuit are used
ExtDefault == OwnDefault /\ SetDefault /\ CirDefault /\ PkDefault

\* test_xor_nand, with the inputs assigned in any order
InitCir == intBits = 64 /\ RegIdle /\ CirInit /\ MMDefault /\ HBDefault /\ OwnDefault /\ SetDefault /\ PkDefault
SpecCir == InitCir /\ [][CirNext]_vars

\* circuits stepped with their dirty nodes and elements in any order
InitOrder == intBits = 64 /\ RegIdle /\ OrdInit /\ MMDefault /\ HBDefault /\ OwnDefault /\ SetDefault /\ PkDefault
SpecOrder == InitOrder /\ [][OrdNext]_vars

InitOwn == OwnInit /\ RegIdle /\ intBits = 64 /\ MMDefault /\ HBDefault /\ SetDefault /\ CirDefault /\ PkDefault

\* an IdRefCount with handles of either class
SpecOwn == InitOwn /\ [][OwnNext]_vars

\* an id set over 64 bit integers
InitSet == intBits = 64 /\ RegIdle /\ SetInit /\ MMDefault /\ HBDefault /\ OwnDefault /\ CirDefault /\ PkDefault
SpecSet == InitSet /\ [][SetNext]_vars

\* the registry next to a store nobody calls
Init == RegInit /\ MMDefault /\ HBDefault /\ ExtDefault

Spec == Init /\ [][RegNext]_vars

\* the store next to a registry nobody calls
InitMM == MMInit /\ RegInit /\ ~ noAutoResize /\ growth = "x2" /\ HBDefault /\ ExtDefault

SpecMM == InitMM /\ [][MMNext]_vars

\* the registry with reserve called for any size
SpecReserve == Init /\ [][RegReserveNext]_vars

\* the registry with remove called for any id
SpecRemove == Init /\ [][RegRemoveNext]_vars

\* the auto-growing registry with range creates on large arrays
InitArray == Init /\ ~ noAutoResize

InitBitView == BVInit /\ MMDefault /\ HBDefault /\ ExtDefault

\* a BitView over a caller's range of integers
SpecBitView == InitBitView /\ [][BVNext]_vars

SpecArray == InitArray /\ [][RegArrayNext]_vars

InitHB == HBInit /\ MMDefault /\ ExtDefault

\* a HierarchicalBitset under every operation
SpecHB == InitHB /\ [][HBNext]_vars

\* the IdRegistry on a hierarchical bitset
InitIdReg == IdRegInit /\ MMDefault /\ ExtDefault
SpecIdReg == InitIdReg /\ [][IdRegNext]_vars

\* a HierarchicalBitset under set and reset calls only
InitHBBits == HBScanInit /\ MMDefault /\ ExtDefault
SpecHBBits == InitHBBits /\ [][HBBitsNext]_vars

\* the hierarchical bitset that is set, reset and resized
InitHBResize == HBResizeInit /\ MMDefault /\ ExtDefault
SpecHBResize == InitHBResize /\ [][HBResizeNext]_vars

\* the store called with emplace, erase and pack() with its default budget
MMBasicNext ==
    \/ \E id \in Ids, n \in 1 .. MaxLen : MM_emplace(id, n)
    \/ \E id \in Ids : MM_erase(id)
    \/ MM_pack(size_max)

SpecMMBasic == InitMM /\ [][MMBasicNext]_vars

\* a store for one id more, so that a live partition can lie between two
\* interior free spans, called with emplace, erase and pack
PackIds == 0 .. MaxIds
PackLens == {1, MaxLen}
PackCapacity == 2 * MaxIds

MMPackInit ==
    /\ StoreIs(IntArrayMultiMap_ctor(PackCapacity, MaxIds + 1))
    /\ fault = "none"
    /\ afterFault = FALSE
    /\ mmOp = "init"
    /\ mmArg = 0
    /\ mmLen = 0
    /\ mmRet = 0
    /\ written = [id \in PackIds |-> NoPayload]

MMPackNext ==
    \/ \E id \in PackIds, n \in PackLens : MM_emplace(id, n)
    \/ \E id \in PackIds : MM_erase(id)
    \/ \E n \in PackBudgets : MM_pack(n)

\* move budgets of at least one element
RepackBudgets == PackBudgets \ {0}

\* pack(n) is entered: std::size_t moveTotal = 0.  The first call is made on
\* a store that no call has damaged, and the caller hands every later call
\* the n of the first one.
Pack_begin(n) ==
    /\ Callable
    /\ mmOp # "packing"
    /\ IF mmOp = "pack" THEN mmArg = n ELSE fault = "none"
    /\ mmOp' = "packing"
    /\ mmArg' = n
    /\ moveTotal' = 0
    /\ UNCHANGED <<m_partitions, m_data, m_dataSize, m_dataNull, fault,
                   afterFault, written, mmLen, mmRet, regVars, hbVars,
                   ownVars, setVars, cirVars>>

\* one pass of the while loop of pack: pack_step, then the move of the
\* elements it reports
Pack_pass ==
    LET r     == pack_step(m_partitions, mmArg - moveTotal)
        moved == r.moved
        data2 == IF moved.m_size # 0
                 THEN DataMove(m_data, m_dataSize, moved.m_offsetSrc,
                               moved.m_offsetDst, moved.m_size)
                 ELSE m_data
        ub2   == /\ moved.m_size # 0
                 /\ \/ moved.m_offsetDst < 0
                    \/ moved.m_offsetSrc + moved.m_size > m_dataSize
    IN  /\ mmOp = "packing"
        /\ fault \notin {"abort", "crash"}
        /\ m_partitions.m_free # << >> /\ moveTotal < mmArg
        /\ moveTotal' = moveTotal + moved.m_size
        /\ MM_return([mm       |-> [Store EXCEPT !.p = r.p, !.data = data2],
                      ub       |-> r.ub \/ ub2,
                      asserted |-> r.asserted], written)
        /\ UNCHANGED <<mmOp, mmArg, mmLen, mmRet, regVars, hbVars,
                       ownVars, setVars, cirVars>>

\* ENABLED <<Pack_pass>>_vars: a pass takes a record off m_free, raises
\* moveTotal, or ends the process
PassEnabled ==
    /\ mmOp = "packing"
    /\ fault \notin {"abort", "crash"}
    /\ m_partitions.m_free # << >> /\ moveTotal < mmArg

\* the condition of the while loop is false: pack returns
Pack_return ==
    /\ mmOp = "packing"
    /\ fault \notin {"abort", "crash"}
    /\ ~ (m_partitions.m_free # << >> /\ moveTotal < mmArg)
    /\ mmOp' = "pack"
    /\ UNCHANGED <<m_partitions, m_data, m_dataSize, m_dataNull, fault,
                   afterFault, written, mmArg, mmLen, mmRet, moveTotal,
                   regVars, hbVars, ownVars, setVars, cirVars>>

Repack == \E n \in RepackBudgets : Pack_begin(n)

\* a store fragmented by emplace and erase calls, then packed by repeated
\* pack(n) calls and by nothing else
MMRepackNext ==
    \/ \E id \in PackIds, n \in PackLens :
          mmOp \in {"init", "emplace", "erase"} /\ MM_emplace(id, n)
    \/ \E id \in PackIds : mmOp \in {"init", "emplace", "erase"} /\ MM_erase(id)
    \/ Repack
    \/ Pack_pass
    \/ Pack_return

InitPack == MMPackInit /\ RegInit /\ ~ noAutoResize /\ growth = "x2" /\ HBDefault /\ ExtDefault

SpecPack == InitPack /\ [][MMPackNext]_vars

\* the caller goes on calling pack(n) for as long as a call can be made,
\* and a call that was entered runs on
SpecRepack ==
    /\ InitPack
    /\ [][MMRepackNext]_vars
    /\ WF_vars(Repack) /\ WF_vars(Pack_return)
    /\ ([]<>(~ PassEnabled) \/ []<><<Pack_pass>>_vars)

\* the ids handed to operator[] and contains: those of the store, the first
\* one past its id maps and the null id
AccessIds == Ids \cup {MaxIds, smc_null}

\* store[id]
MM_subscript(id) ==
    /\ Callable
    /\ mmOp' = "subscript"
    /\ mmArg' = id
    /\ mmRet' = 0
    /\ \E g \in GarbageIds :
          /\ mmLen' = Len(IntArrayMultiMap_subscript(Store, id, g).ret)
          /\ MM_return(IntArrayMultiMap_subscript(Store, id, g), written)
    /\ UNCHANGED <<regVars, hbVars, extVars>>

\* store.contains(id)
MM_contains(id) ==
    /\ Callable
    /\ mmOp' = "contains"
    /\ mmArg' = id
    /\ mmLen' = 0
    /\ mmRet' = IF IntArrayMultiMap_contains(Store, id) THEN 1 ELSE 0
    /\ UNCHANGED <<m_partitions, m_data, m_dataSize, m_dataNull, written, fault,
                   afterFault, regVars, hbVars, extVars>>

MMAccessNext ==
    \/ \E id \in Ids, n \in 1 .. MaxLen : MM_emplace(id, n)
    \/ \E id \in Ids : MM_erase(id)
    \/ \E id \in AccessIds : MM_subscript(id)
    \/ \E id \in AccessIds : MM_contains(id)

\* the store read through operator[] and contains between emplace and erase
SpecAccess == InitMM /\ [][MMAccessNext]_vars

\* ================================================================ claims

IsCreateStep == regOp' \in {"create", "create_range"} /\ regVars' # regVars

\* the ids a create call wrote, in the order it wrote them
Written(out, first) == [i \in 1 .. first |-> out[i]]

Ascending(seq) == \A i \in 1 .. (Len(seq) - 1) : seq[i] < seq[i + 1]

\* C1: whenever a slot is free, create() returns the lowest-numbered free
\* slot and that slot is taken afterwards (so after creating 0, 1, 2 and
\* removing 1 the next create() returns 1).
C1_CreateStep ==
    (regOp' = "create" /\ regVars' # regVars) =>
        LET free == FreeSlots(ints)
        IN  free # {} =>
              /\ regFirst' = 1
              /\ regOut'[1] = Min(free)
              /\ BitViewIdRegistry_exists(ints', regOut'[1])
              /\ FreeSlots(ints') = free \ {regOut'[1]}

C1_LowestFree == [][C1_CreateStep]_vars

\* ids 0 and 2 are live, 1 was removed and has just been handed out again
C1_Witness == regOp = "create" /\ regOut = <<1>> /\ created = {0, 1, 2}

\* C2: exists(id) holds exactly for the ids created and not removed since,
\* size() is their number, and each of them is below capacity().
C2_ExistsIsCreated ==
    /\ \A id \in (0 .. capacity) \cup created : exists(id) <=> id \in created
    /\ size = Cardinality(created)
    /\ \A id \in created : 0 <= id /\ id < capacity

\* an id has been removed below another id that is still live
C2_Witness ==
    /\ regOp = "remove"
    /\ \E id \in created : id > regArg
    /\ ~ exists(regArg)

\* C9: on the auto-growing registry create() never returns the null id; the
\* id it returns did not exist before, every id that existed still exists,
\* and when no slot was free the capacity has grown and every new slot but
\* the returned one is free.
C9_CreateStep ==
    (regOp' = "create" /\ regVars' # regVars /\ ~ noAutoResize) =>
        LET free == FreeSlots(ints)
        IN  /\ regFirst' = 1
            /\ regOut'[1] # id_null
            /\ ~ exists(regOut'[1])
            /\ BitViewIdRegistry_exists(ints', regOut'[1])
            /\ \A id \in (0 .. (capacity - 1)) \ free :
                    BitViewIdRegistry_exists(ints', id)
            /\ free = {} =>
                  /\ BitViewIdRegistry_capacity(ints') > capacity
                  /\ regOut'[1] = capacity
                  /\ FreeSlots(ints') =
                        (capacity .. (BitViewIdRegistry_capacity(ints') - 1))
                            \ {regOut'[1]}

C9_AutoGrowNeverNull == [][C9_CreateStep]_vars

\* a create() found every slot of a non-empty registry taken and grew it
C9_Witness ==
    /\ regOp = "create"
    /\ ~ noAutoResize
    /\ regOut = <<smc_bitSize>>
    /\ capacity > smc_bitSize
    /\ size = smc_bitSize + 1

\* C10: on the fixed-capacity registry a create() that finds no free slot
\* returns the null id and changes nothing; a range create of k ids with
\* only f < k free slots writes the f free ids in ascending order, returns
\* position f, and leaves the capacity and the other k - f elements alone.
C10_CreateStep ==
    (IsCreateStep /\ noAutoResize) =>
        LET free == FreeSlots(ints)
            f    == Cardinality(free)
            k    == regArg'
        IN  /\ BitViewIdRegistry_capacity(ints') = capacity
            /\ (regOp' = "create" /\ f = 0) =>
                  /\ regOut' = <<id_null>>
                  /\ ints' = ints
                  /\ created' = created
            /\ f < k =>
                  /\ regFirst' = f
                  /\ {regOut'[i] : i \in 1 .. f} = free
                  /\ Ascending(Written(regOut', f))
                  /\ \A i \in (f + 1) .. k : regOut'[i] = id_null
                  /\ FreeSlots(ints') = {}

C10_FixedShortCount == [][C10_CreateStep]_vars

\* a range create on a full-but-for-some fixed registry came back short
C10_Witness ==
    /\ noAutoResize
    /\ regOp = "create_range"
    /\ 0 < regFirst
    /\ regFirst < regArg
    /\ regOut[regArg] = id_null

\* C11: a range create of k ids on the auto-growing registry writes exactly
\* k distinct ids in strictly ascending order, and they are the k lowest
\* slots free at the time, the slots added by growing counting as free; the
\* ids live before stay live and nothing else becomes live.
C11_CreateStep ==
    (regOp' = "create_range" /\ regVars' # regVars /\ ~ noAutoResize) =>
        LET k     == regArg'
            W     == {regOut'[i] : i \in 1 .. k}
            avail == FreeSlots(ints)
                        \cup (capacity .. (BitViewIdRegistry_capacity(ints') - 1))
        IN  /\ regFirst' = k
            /\ Len(regOut') = k
            /\ Ascending(regOut')
            /\ Cardinality(W) = k
            /\ W \subseteq avail
            /\ \A x \in avail \ W : \A w \in W : w < x
            /\ TakenSlots(ints') = TakenSlots(ints) \cup W

C11_RangeCreateGrows == [][C11_CreateStep]_vars

\* with ids 0, 1, 2 live a range create of 128 ids wrote 3 .. 130, which
\* took more than one growth of the vector
C11_Witness ==
    /\ regOp = "create_range"
    /\ ~ noAutoResize
    /\ regArg = 2 * smc_bitSize
    /\ regOut = [i \in 1 .. (2 * smc_bitSize) |-> i + 2]
    /\ TakenSlots(ints) = 0 .. (2 * smc_bitSize + 2)
    /\ Len(ints) > 2

\* C12: reserve(n) leaves capacity() >= n and not smaller than before, every
\* slot it added is free, and every id live before the call is still live.
C12_ReserveStep ==
    (regOp' = "reserve" /\ regVars' # regVars) =>
        LET n == regArg'
        IN  /\ BitViewIdRegistry_capacity(ints') >= n
            /\ BitViewIdRegistry_capacity(ints') >= capacity
            /\ \A id \in capacity .. (BitViewIdRegistry_capacity(ints') - 1) :
                    BitView_test(ints', id)
            /\ \A id \in TakenSlots(ints) : BitViewIdRegistry_exists(ints', id)

C12_ReserveGrows == [][C12_ReserveStep]_vars

\* C13: iterating the registry from begin() to end() yields exactly the live
\* ids, each once, in strictly ascending order, starting at the lowest one.
C13_IterationIsLive ==
    LET seq == BitViewIdRegistry_iterate(ints)
    IN  /\ Ascending(seq)
        /\ {seq[i] : i \in 1 .. Len(seq)} = created
        /\ Len(seq) = size
        /\ {id \in 0 .. (capacity - 1) : exists(id)} = {seq[i] : i \in 1 .. Len(seq)}
        /\ created # {} => seq[1] = Min(created)

\* live ids in both words, with a free slot below a live one in each
C13_Witness ==
    /\ Len(ints) = 2
    /\ exists(0) /\ ~ exists(1) /\ exists(2)
    /\ ~ exists(smc_bitSize - 1) /\ ~ exists(smc_bitSize)
    /\ exists(smc_bitSize + 1)

\* C14: for words of 8, 16, 32 or 64 bits ones() yields exactly the positions
\* of the set bits and zeros() exactly those of the clear bits, each once and
\* strictly ascending, ending with the word sequence (nothing for an empty
\* sequence, nothing from ones() when every word is 0).
C14_OnesAndZeros ==
    LET ones  == BitViewValues_iterate(ints, TRUE)
        zeros == BitViewValues_iterate(ints, FALSE)
        all   == 0 .. (BitView_size(ints) - 1)
    IN  /\ Ascending(ones)
        /\ Ascending(zeros)
        /\ {ones[i] : i \in 1 .. Len(ones)} = {p \in all : BitView_test(ints, p)}
        /\ {zeros[i] : i \in 1 .. Len(zeros)} = {p \in all : ~ BitView_test(ints, p)}
        /\ Len(ones) = BitView_count(ints)
        /\ Len(ones) + Len(zeros) = BitView_size(ints)

\* 8 bit words after set(15): ones() has to skip the first word, and zeros()
\* finds nothing in the second
C14_Witness ==
    /\ intBits = 8
    /\ ints = <<{}, AllOnes>>
    /\ regOp = "set"
    /\ regArg = (2 * smc_bitSize) - 1

\* --------------------------------------------------- hierarchical bitset
\* the bitset has been constructed with a size
Constructed == bitset.m_rows # << >>

\* bit number bit of a row
RowTest(hb, level, bit) ==
    LET pos == bit_at(bit)
    IN  pos.m_bit \in row_block(hb, level, pos.m_block)

\* the number of bits a row stands for: the size for row 0, the number of
\* blocks of the row below for the others
RowBits(hb, level) == IF level = 0 THEN hb.m_size ELSE hb.m_rows[level].m_size

\* the positions of the one bits of row 0, found bit by bit
LinearScan(hb) == {bit \in 0 .. (hb.m_size - 1) : RowTest(hb, 0, bit)}

\* C15: after any sequence of set(bit), reset(bit), set(), reset(), take(k)
\* and resize(n, fill), bit j of row k+1 is 1 exactly when block j of row k
\* is not zero, for every row k below the top row, and no row has a bit set
\* at or beyond the number of bits it stands for.
C15_SummaryRows ==
    Constructed =>
        /\ \A k \in 0 .. (bitset.m_topLevel - 1) :
              \A j \in 0 .. (bitset.m_rows[k + 1].m_size - 1) :
                  RowTest(bitset, k + 1, j) <=> row_block(bitset, k, j) # {}
        /\ \A k \in 0 .. bitset.m_topLevel :
              \A j \in 0 .. (bitset.m_rows[k + 1].m_size - 1) :
                  \A b \in row_block(bitset, k, j) :
                      (j * smc_blockSize) + b < RowBits(bitset, k)


\* C16: on a bitset changed by set and reset calls, with one or several
\* summary rows, the loop from begin() to end() yields a strictly ascending
\* sequence whose elements are exactly the positions a bit by bit scan of
\* row 0 finds set, next(bit) is the lowest such position above bit (size()
\* when there is none), and a bitset without one bits yields nothing.
C16_IterationIsScan ==
    LET seen == HierarchicalBitset_iterate(bitset)
        scan == LinearScan(bitset)
    IN  /\ Ascending(seen)
        /\ {seen[i] : i \in DOMAIN seen} = scan
        /\ Len(seen) = Cardinality(scan)
        /\ scan = {} => seen = << >>
        /\ \A bit \in 0 .. (bitset.m_size - 1) :
              HierarchicalBitset_next(bitset, bit) =
                  Min({b \in scan : b > bit} \cup {bitset.m_size})

\* three rows of 8 bit blocks: 0, 42 and 128 were set and 0 has just been
\* reset, so that the loop crosses from block 5 to block 16 through row 2
C16_Witness ==
    /\ intBits = 8
    /\ bitset.m_topLevel = 2
    /\ hbOp = "reset"
    /\ hbArg = 0
    /\ HierarchicalBitset_iterate(bitset) = <<42, 128>>

\* the n lowest members of a set of positions
Lowest(S, n) == {b \in S : Cardinality({c \in S : c < b}) < n}

\* C17: take(k) on a bitset with a bits set writes the min(k, a) lowest set
\* positions in ascending order, clears exactly those bits and no other,
\* returns k - min(k, a) and lowers count() by min(k, a).
C17_TakeStep ==
    (hbOp' = "take" /\ Constructed /\ hbFault = "none") =>
        LET scan  == LinearScan(bitset)
            k     == hbArg'
            n     == Min({k, Cardinality(scan)})
            taken == Lowest(scan, n)
        IN  /\ hbFault' = "none"
            /\ Len(hbOut') = n
            /\ Ascending(hbOut')
            /\ {hbOut'[i] : i \in DOMAIN hbOut'} = taken
            /\ LinearScan(bitset') = scan \ taken
            /\ hbRet' = k - n
            /\ bitset'.m_count = bitset.m_count - n
            /\ bitset'.m_size = bitset.m_size

C17_TakeLowest == [][C17_TakeStep]_vars

\* the free ids of the registry on a hierarchical bitset, found bit by bit
IdRegFree(m_deleted) == LinearScan(m_deleted)

\* C18: on the IdRegistry kept in a hierarchical bitset, with a capacity of
\* more than one 64 bit block, a create call that needs no forbidden resize
\* returns the lowest free ids (the ids added by growing included) in
\* ascending order, each below capacity() and not live before, and after
\* every call size() is the number of live ids.
C18_CreateStep ==
    /\ (hbOp' \in {"create", "create_range"} /\ hbFault = "none"
           /\ ~ (noAutoResize /\ bitset.m_count < hbArg')) =>
          LET cap2  == IdRegistry_capacity(bitset')
              free  == IdRegFree(bitset)
                           \cup (IdRegistry_capacity(bitset) .. (cap2 - 1))
              taken == Lowest(free, hbArg')
          IN  /\ hbFault' = "none"
              /\ Len(hbOut') = hbArg'
              /\ Ascending(hbOut')
              /\ {hbOut'[i] : i \in DOMAIN hbOut'} = taken
              /\ \A i \in DOMAIN hbOut' :
                    hbOut'[i] < cap2 /\ hbOut'[i] \notin created
              /\ IdRegFree(bitset') = free \ taken
    /\ (hbOp' \in {"create", "create_range", "remove", "reserve"}
           /\ hbFault' = "none") =>
          IdRegistry_size(bitset') = Cardinality(created')

C18_SameAsFlat == [][C18_CreateStep]_vars

\* ------------------------------------------------------ partition store
Live == {id \in Ids : contains(id)}
Span(id) == m_partitions.m_idToData[id + 1]
Trailing == m_partitions.m_freeLast

\* every live id reads back what its last emplace stored
PayloadsKept == \A id \in Live : at(id) = written[id]

\* the spans of [0, data_capacity()) the store accounts for: those of the
\* live ids, the interior free spans and the trailing free span
Pieces ==
    {[m_offset |-> Span(id).m_offset, m_size |-> Span(id).m_size, of |-> <<"id", id>>] :
        id \in Live}
    \cup {[m_offset |-> m_partitions.m_free[i].m_offset,
           m_size   |-> m_partitions.m_free[i].m_size, of |-> <<"free", i>>] :
             i \in DOMAIN m_partitions.m_free}
    \cup {[m_offset |-> Trailing.m_offset, m_size |-> Trailing.m_size,
           of |-> <<"trailing", 0>>]}

Disjoint(a, b) ==
    \/ a.m_size = 0
    \/ b.m_size = 0
    \/ a.m_offset + a.m_size <= b.m_offset
    \/ b.m_offset + b.m_size <= a.m_offset

RECURSIVE SumSizes(_)
SumSizes(pieces) ==
    IF pieces = {} THEN 0
    ELSE LET x == CHOOSE y \in pieces : TRUE
         IN  x.m_size + SumSizes(pieces \ {x})

NoOverlap ==
    \A a, b \in Live : a # b =>
        Disjoint(Span(a), Span(b))

\* the pieces lie inside the buffer, do not overlap and leave nothing out
Tiles ==
    /\ \A x \in Pieces : 0 <= x.m_offset /\ x.m_offset + x.m_size <= data_capacity
    /\ \A x, y \in Pieces : x # y => Disjoint(x, y)
    /\ SumSizes(Pieces) = data_capacity

\* the id -> partition and partition -> id maps are inverse to each other
MapsAgree ==
    /\ \A id \in Live :
          /\ InRange(m_partitions.m_partitionToId, m_partitions.m_idToPartition[id + 1])
          /\ m_partitions.m_partitionToId[m_partitions.m_idToPartition[id + 1] + 1] = id
    /\ \A q \in DOMAIN m_partitions.m_partitionToId :
          m_partitions.m_partitionToId[q] # smc_null =>
              /\ m_partitions.m_partitionToId[q] \in Ids
              /\ m_partitions.m_idToPartition[m_partitions.m_partitionToId[q] + 1] = q - 1

\* every free-span record names partitions that hold no id
FreeDescribesGaps ==
    \A i \in DOMAIN m_partitions.m_free :
        LET f == m_partitions.m_free[i]
        IN  \A q \in f.m_partitionNum .. (f.m_partitionNum + f.m_partitionCount - 1) :
                VecGet(m_partitions.m_partitionToId, q, smc_null) = smc_null

Consistent == MapsAgree /\ NoOverlap /\ Tiles /\ FreeDescribesGaps

\* C3: every id that was emplaced and not erased since reads back, through
\* operator[], a span with the length and the elements of the data it was
\* emplaced with, whatever was emplaced, erased or packed for other ids in
\* between; an erased id is not contained, so that it can be emplaced again.
C3_EmplaceRoundTrip ==
    \A id \in Ids :
        IF written[id] # NoPayload
        THEN contains(id) /\ at(id) = written[id]
        ELSE ~ contains(id)

\* C4: pack() with the default budget, after any emplace and erase calls,
\* returns with every live id's payload as last written, no interior free
\* span, the live partitions in their previous order and numbered
\* 0 .. ids_count() - 1, and the trailing free span at offset data_size().
C4_PackStep ==
    (mmOp' = "pack" /\ mmArg' = size_max) =>
        /\ fault' \notin {"abort", "crash"}
        /\ Live' = Live
        /\ \A id \in Live : at(id)' = written[id]
        /\ m_partitions'.m_free = << >>
        /\ {m_partitions'.m_idToPartition[id + 1] : id \in Live}
              = 0 .. (ids_count' - 1)
        /\ \A a, b \in Live :
              ult(m_partitions.m_idToPartition[a + 1],
                  m_partitions.m_idToPartition[b + 1])
              => ult(m_partitions'.m_idToPartition[a + 1],
                     m_partitions'.m_idToPartition[b + 1])
        /\ Trailing'.m_offset = data_size'

C4_FullPack == [][C4_PackStep]_vars

\* C5: a pack(n), n >= 1, on a consistent store returns with the store
\* consistent again, also when the budget stopped it with partitions still
\* to slide: the free-span records name the gaps, the maps agree, nothing
\* overlaps, every live payload is as last written, and a later pack
\* continues from there without failing.
C5_PackStep ==
    (mmOp' = "pack" /\ mmArg' >= 1 /\ fault = "none" /\ Consistent /\ PayloadsKept) =>
        /\ fault' = "none"
        /\ Consistent'
        /\ PayloadsKept'

C5_BudgetedPackConsistent == [][C5_PackStep]_vars

\* C6: in every state the store reaches through data_reserve, emplace, erase
\* and pack with any budget, no two live spans overlap, and the live spans,
\* the interior free spans and the trailing free span tile
\* [0, data_capacity()).
C6_SpansTile == NoOverlap /\ Tiles

\* C7: an emplace of more elements than the trailing free span holds returns
\* a result that is no element of the buffer and leaves the store as it was:
\* no id bound, ids_count(), data_size(), the spans, the payloads and the
\* free-span records unchanged, and the process running.
C7_EmplaceStep ==
    (mmOp' = "emplace" /\ fault = "none" /\ mmLen' > Trailing.m_size) =>
        /\ fault' = "none"
        /\ UNCHANGED <<m_partitions, m_data, m_dataSize, m_dataNull>>
        /\ mmRet' \notin 0 .. (data_capacity - 1)

C7_NoSpaceRecoverable == [][C7_EmplaceStep]_vars

\* C8: data_reserve(c) with c >= data_size() on a consistent store returns
\* with every live id's payload and length as before, no interior free span,
\* and the trailing free span at offset data_size() with size c - data_size().
C8_ReserveStep ==
    (mmOp' = "data_reserve" /\ fault = "none" /\ Consistent /\ PayloadsKept) =>
        /\ fault' = "none"
        /\ Live' = Live
        /\ \A id \in Live : at(id)' = at(id)
        /\ m_partitions'.m_free = << >>
        /\ Trailing'.m_offset = data_size'
        /\ Trailing'.m_size = mmArg' - data_size'
        /\ data_capacity' = mmArg'

C8_ReservePreserves == [][C8_ReserveStep]_vars

\* C19: a pack(n) call moves at most n elements in total, whatever the
\* fragmentation; pack(0) moves nothing and leaves the maps, the spans, the
\* free records and the payloads as they were.
C19_PackStep ==
    (mmOp' = "pack" /\ fault = "none") =>
        /\ IntArrayMultiMap_pack(Store, mmArg').moveTotal <= mmArg'
        /\ mmArg' = 0 =>
              /\ m_partitions' = m_partitions
              /\ m_data' = m_data
              /\ fault' = "none"

C19_PackWithinBudget == [][C19_PackStep]_vars

\* the live ids whose partition number is below the trailing free span's, and
\* the interior free records below it
LiveBelowTrailing ==
    {id \in Live : ult(m_partitions.m_idToPartition[id + 1], Trailing.m_partitionNum)}

FreeBelowTrailing ==
    {i \in DOMAIN m_partitions.m_free :
        ult(m_partitions.m_free[i].m_partitionNum, Trailing.m_partitionNum)}

LiveLengthBelow ==
    SumSizes({[m_size |-> Span(id).m_size, of |-> id] : id \in LiveBelowTrailing})

FreeLengthBelow ==
    SumSizes({[m_size |-> m_partitions.m_free[i].m_size, of |-> i] :
                 i \in FreeBelowTrailing})

\* C20: in every state reached by emplace, erase, pack and data_reserve the
\* trailing free span's offset is the sum of the lengths of the live
\* partitions whose partition number is below the trailing free span's.
C20_TrailingOffset == Trailing.m_offset = LiveLengthBelow

\* the same sum with the sizes of the interior free spans added, which lie
\* below the trailing free span as well
TrailingOffsetWithGaps == Trailing.m_offset = LiveLengthBelow + FreeLengthBelow

\* the partition numbers a free-span record covers
FreePartitions(f) == f.m_partitionNum .. (f.m_partitionNum + f.m_partitionCount - 1)

\* two free-span records neither share a partition number nor touch
Apart(f, g) ==
    \/ f.m_partitionNum + f.m_partitionCount < g.m_partitionNum
    \/ g.m_partitionNum + g.m_partitionCount < f.m_partitionNum

\* C21: after every erase and every pack the interior free-span records do
\* not overlap, and no two of them, nor an interior one and the trailing
\* span, are adjacent in partition-number space: free spans that become
\* adjacent are merged into one record at once.
C21_FreeSpansMerged ==
    (mmOp \in {"erase", "pack"} /\ fault = "none") =>
        /\ \A i, j \in DOMAIN m_partitions.m_free :
              i # j => Apart(m_partitions.m_free[i], m_partitions.m_free[j])
        /\ \A i \in DOMAIN m_partitions.m_free :
              Apart(m_partitions.m_free[i], Trailing)

\* the record a compaction step works on (rFirst), the record it merges it
\* into (rNext) and that record after the step ran on p
FirstFree(p) == p.m_free[Len(p.m_free)]
NextFree(p) == IF Len(p.m_free) = 1 THEN p.m_freeLast ELSE p.m_free[Len(p.m_free) - 1]
NextFreeAfter(p, q) == IF Len(p.m_free) = 1 THEN q.m_freeLast ELSE q.m_free[Len(p.m_free) - 1]

\* the ids a partition description has room for
StoreIds(p) == 0 .. (Len(p.m_idToPartition) - 1)

\* the ids a compaction step from p to q gave another partition
Slid(p, q) == {id \in StoreIds(p) : p.m_idToPartition[id + 1] # q.m_idToPartition[id + 1]}

\* the ids whose partitions lie between the records rFirst and rNext of p
Between(p) ==
    {id \in StoreIds(p) :
        /\ p.m_idToPartition[id + 1] # smc_null
        /\ FirstFree(p).m_partitionNum + FirstFree(p).m_partitionCount
              <= p.m_idToPartition[id + 1]
        /\ p.m_idToPartition[id + 1] < NextFree(p).m_partitionNum}

\* what a compaction step from p to q does with the record it selected: the
\* ids it slid follow the record, each went down by the record's partition
\* count and left by its length, and where the step reached the next free
\* span it slid every id in between and merged the record into that span
SlidesAndMerges(p, q) ==
    /\ Slid(p, q) \subseteq Between(p)
    /\ \A id \in Slid(p, q) :
          /\ q.m_idToPartition[id + 1]
                = p.m_idToPartition[id + 1] - FirstFree(p).m_partitionCount
          /\ q.m_idToData[id + 1].m_offset
                = p.m_idToData[id + 1].m_offset - FirstFree(p).m_size
          /\ q.m_idToData[id + 1].m_size = p.m_idToData[id + 1].m_size
    /\ Len(q.m_free) < Len(p.m_free) =>
          /\ Slid(p, q) = Between(p)
          /\ Len(q.m_free) = Len(p.m_free) - 1
          /\ NextFreeAfter(p, q).m_offset = NextFree(p).m_offset - FirstFree(p).m_size
          /\ NextFreeAfter(p, q).m_size = NextFree(p).m_size + FirstFree(p).m_size
          /\ NextFreeAfter(p, q).m_partitionNum
                = NextFree(p).m_partitionNum - FirstFree(p).m_partitionCount
          /\ NextFreeAfter(p, q).m_partitionCount
                = NextFree(p).m_partitionCount + FirstFree(p).m_partitionCount

\* the compaction steps of a pack(maxMoveHint) call on p, each as the pair
\* of the partition descriptions before and after it; movedBefore is what the
\* steps before moved
RECURSIVE PackSteps(_, _, _)
PackSteps(p, maxMoveHint, movedBefore) ==
    IF p.m_free # << >> /\ movedBefore < maxMoveHint
    THEN LET r == pack_step(p, maxMoveHint - movedBefore)
         IN  {<<p, r.p>>} \cup
             IF r.ub \/ r.asserted THEN {}
             ELSE PackSteps(r.p, maxMoveHint, movedBefore + r.moved.m_size)
    ELSE {}

\* a pack call on a store no call has damaged
C22_Packs == mmOp' = "pack" /\ fault = "none"

\* C22: each compaction step of pack selects the interior free span with the
\* highest partition number, the one closest to the trailing free span, and
\* slides the live partitions that follow it left by that span's length
\* until the next free span is reached, into which it is merged.
C22_Step ==
    C22_Packs =>
        \A step \in PackSteps(m_partitions, mmArg', 0) :
            /\ \A i \in DOMAIN step[1].m_free :
                  step[1].m_free[i].m_partitionNum <= FirstFree(step[1]).m_partitionNum
            /\ SlidesAndMerges(step[1], step[2])

RunSlots(p) ==
    LET start == FirstFree(p).m_partitionNum + FirstFree(p).m_partitionCount
    IN  {n \in start .. (Len(p.m_partitionToId) - 1) :
            \A k \in start .. n : p.m_partitionToId[k + 1] # smc_null}

Run(p) == {p.m_partitionToId[n + 1] : n \in RunSlots(p)}

\* what the code's compaction step from p to q does: the ids it slid are
\* ids of the run behind the record, each went down by the record's
\* partition count and left by its length; a step that removed the record
\* slid the whole run, and where the empty slot behind the run starts the
\* next free span (as the step asserts) the record is merged into that span
SlidesRunAndMerges(p, q) ==
    /\ Slid(p, q) \subseteq Run(p)
    /\ \A id \in Slid(p, q) :
          /\ q.m_idToPartition[id + 1]
                = p.m_idToPartition[id + 1] - FirstFree(p).m_partitionCount
          /\ q.m_idToData[id + 1].m_offset
                = p.m_idToData[id + 1].m_offset - FirstFree(p).m_size
          /\ q.m_idToData[id + 1].m_size = p.m_idToData[id + 1].m_size
    /\ Len(q.m_free) < Len(p.m_free) =>
          /\ Slid(p, q) = Run(p)
          /\ Len(q.m_free) = Len(p.m_free) - 1
          /\ FirstFree(p).m_partitionNum + FirstFree(p).m_partitionCount
                + Cardinality(RunSlots(p)) = NextFree(p).m_partitionNum
             => /\ Slid(p, q) = Between(p)
                /\ NextFreeAfter(p, q).m_offset
                      = NextFree(p).m_offset - FirstFree(p).m_size
                /\ NextFreeAfter(p, q).m_size
                      = NextFree(p).m_size + FirstFree(p).m_size
                /\ NextFreeAfter(p, q).m_partitionNum
                      = NextFree(p).m_partitionNum - FirstFree(p).m_partitionCount
                /\ NextFreeAfter(p, q).m_partitionCount
                      = NextFree(p).m_partitionCount + FirstFree(p).m_partitionCount

\* C22 as the code has it: each compaction step selects the last record of
\* the free list, which holds the lowest partition number of the interior
\* free spans (the one farthest from the trailing free span), and slides the
\* live partitions that follow it left by that span's length until it
\* reaches a partition slot without an id; where that slot starts the next
\* free span, the record is merged into it.
C22_StepLowest ==
    C22_Packs =>
        \A step \in PackSteps(m_partitions, mmArg', 0) :
            /\ \A i \in DOMAIN step[1].m_free :
                  FirstFree(step[1]).m_partitionNum <= step[1].m_free[i].m_partitionNum
            /\ SlidesRunAndMerges(step[1], step[2])

C23_AccessStep ==
    (fault = "none" /\ mmOp' \in {"subscript", "contains"} /\ ~ contains(mmArg')) =>
        /\ fault' = "none"
        /\ mmLen' = 0
        /\ mmRet' = 0
        /\ UNCHANGED <<m_partitions, m_data, m_dataSize, m_dataNull>>

C23_AbsentIsEmpty == [][C23_AccessStep]_vars

\* C24: after any sequence of emplace (successful or not), erase, pack and
\* data_reserve, ids_count() is the number of ids for which contains(id) is
\* true and data_size() is the sum of the lengths of those ids' spans.
C24_CountsMatch ==
    fault \notin {"abort", "crash"} =>
        /\ ids_count = Cardinality(Live)
        /\ data_size = SumSizes({[m_size |-> Span(id).m_size, of |-> id] : id \in Live})

\* C25: remove(id) on an id that does not exist (never created, already
\* removed, the null id, or >= capacity) does not return normally: a build
\* with assertions ends in the assertion failure with the free-slot bitset
\* as it was; remove(id) on a live id frees exactly that slot and changes
\* no other slot and not the capacity.
C25_RemoveStep ==
    (regOp' = "remove" /\ regFault = "none") =>
        IF exists(regArg')
        THEN /\ regFault' = "none"
             /\ FreeSlots(ints') = FreeSlots(ints) \cup {regArg'}
             /\ capacity' = capacity
             /\ ~ BitViewIdRegistry_exists(ints', regArg')
        ELSE /\ regFault' # "none"
             /\ regFault' = "abort" => ints' = ints

C25_RemoveAsserts == [][C25_RemoveStep]_vars

\* a remove of an id below the capacity that is not live failed its
\* assertion
C25_Witness ==
    /\ regOp = "remove"
    /\ regFault = "abort"
    /\ capacity > 0
    /\ regArg < capacity

\* --------------------------------------------------- handles and counts
\* the count an IdRefCount stores for id
CountOf(counts, id) == IF id < Len(counts) THEN counts[id + 1] ELSE 0

\* C26: for any sequence of ref_add, handle moves and ref_release on an
\* IdRefCount, the count stored for an id is the number of non-empty handles
\* that hold the id; ref_release of the handle ref_add returned brings the
\* count back to what it was and empties the handle, and ref_release of an
\* empty handle changes nothing.
C26_Step ==
    /\ ownFault' = "none" =>
          \A id \in RefIds :
              CountOf(refCounts', id) = Cardinality({h \in Owners : owners'[h] = id})
    /\ (ownOp' = "ref_release" /\ ownFault = "none") =>
          LET h == ownArg'
          IN  IF has_value(owners[h])
              THEN /\ refCounts'[owners[h] + 1] = refCounts[owners[h] + 1] - 1
                   /\ owners'[h] = id_null
              ELSE UNCHANGED <<refCounts, owners>>

C26_CountIsHolders == [][C26_Step]_vars

\* C27: destroying a handle, or move-assigning over it, while it holds a
\* value is an assertion failure in a build with assertions; a handle that
\* was default-constructed, moved from, or released through its friend
\* registry is empty, and can be destroyed or assigned over without failure.
C27_Step ==
    /\ (ownFault = "none" /\ ownOp' \in {"destroy", "move_assign"}) =>
          IF has_value(owners[ownArg'])
          THEN ownFault' # "none" /\ (ownFault' = "abort" => owners' = owners)
          ELSE ownFault' = "none"
    /\ (ownFault' = "none" /\ ownOp' \in {"construct", "ref_release"}) =>
          ~ has_value(owners'[ownArg'])
    /\ (ownFault' = "none" /\ ownOp' \in {"move_construct", "move_assign"}) =>
          ~ has_value(owners'[ownFrom'])

C27_NonEmptyHandleAsserts == [][C27_Step]_vars

\* C28: resize(n, fill) keeps the value of every bit below min(old size, n),
\* makes every bit in [old size, n) equal to fill, and afterwards count() is
\* the number of set bits in row 0.
SetBits(hb) == {b \in 0 .. (hb.m_size - 1) : HierarchicalBitset_test(hb, b)}

C28_Step ==
    hbResizes' # hbResizes =>
        LET old == bitset.m_size
            n   == hbArg'
        IN  /\ bitset'.m_size = n
            /\ \A b \in 0 .. (Min({old, n}) - 1) :
                   HierarchicalBitset_test(bitset', b)
                       = HierarchicalBitset_test(bitset, b)
            /\ \A b \in old .. (n - 1) :
                   HierarchicalBitset_test(bitset', b) = hbFill'
            /\ bitset'.m_count = Cardinality(SetBits(bitset'))

C28_ResizeKeepsAndFills == [][C28_Step]_vars

\* the resizing test: 20 bits of which only bit 5 is set, resize(30, true)
\* leaves bit 5 and the 10 new bits set
C28_Witness ==
    /\ hbOp = "resize"
    /\ hbArg = 30
    /\ hbFill
    /\ bitset.m_size = 30
    /\ bitset.m_count = 11
    /\ HierarchicalBitset_test(bitset, 5)
    /\ ~ HierarchicalBitset_test(bitset, 19)
    /\ HierarchicalBitset_test(bitset, 20)

\* C29: BitViewIdSet with ONES = true behaves as a mathematical set of ids
\* below its capacity: insert(id) reports success exactly when id was not
\* yet contained and leaves it contained, erase(id) returns 1 exactly when id
\* was contained and leaves it absent, size() is the number of contained
\* ids, empty() holds iff size() is 0, clear() empties it, and iteration
\* yields the contained ids in ascending order.
Contained(words) ==
    {id \in 0 .. (BitViewIdSet_capacity(words) - 1) : BitViewIdSet_contains(words, id)}

C29_Modifiers ==
    /\ setOp' = "insert" =>
          /\ setFlag' = (setArg' \notin Contained(idSet))
          /\ Contained(idSet') = Contained(idSet) \cup {setArg'}
    /\ setOp' = "erase" =>
          /\ setRet' = (IF setArg' \in Contained(idSet) THEN 1 ELSE 0)
          /\ Contained(idSet') = Contained(idSet) \ {setArg'}
    /\ setOp' = "clear" => Contained(idSet') = {}

C29_Observers ==
    /\ setOp' = "size" => setRet' = Cardinality(Contained(idSet))
    /\ setOp' = "iterate" =>
          /\ Ascending(setOut')
          /\ {setOut'[i] : i \in 1 .. Len(setOut')} = Contained(idSet)
    /\ setOp' \in {"size", "iterate", "empty", "contains"} => idSet' = idSet

C29_Empty == setOp' = "empty" => (setFlag' <=> BitViewIdSet_size(idSet) = 0)

C29_ActsAsSet == [][C29_Modifiers /\ C29_Observers /\ C29_Empty]_vars

\* C30: for the 2-input XOR built from four NAND gates, assigning the inputs
\* (0,0), (0,1), (1,0), (1,1) in turn and running step_until_stable after each
\* assignment makes the update loop reach a fixed point (no element
\* notified) within the step limit, with the output node equal to 0, 1, 1, 0
\* respectively.
Xor(pair) == IF pair[1] # pair[2] THEN High ELSE Low

\* the run has not ended before its outputs
C30_Runs == cirPc # "crash"

\* step_until_stable returned because nothing was notified, not because of
\* the step limit, and nothing is left dirty
C30_FixedPoint ==
    (cirPc = "run" /\ Len(cirOut) > 0) =>
        /\ ~ elemNotified
        /\ steps <= maxSteps
        /\ BitView_count(updLogic.m_nodeDirty) = 0
        /\ BitView_count(localDirty) = 0

C30_Outputs ==
    /\ Len(cirOut) <= Len(cirIn)
    /\ \A k \in 1 .. Len(cirOut) : cirOut[k] = Xor(cirIn[k])

C30_XorOfNands == C30_Runs /\ C30_FixedPoint /\ C30_Outputs

\* C31: when the auto-growing registry runs out of free slots at capacity C
\* in the middle of a create request, allocation resumes at slot C, the
\* first newly created slot: the scan for the next free slot starts at C
\* and does not inspect any word below C again.
C31_Resume ==
    IdRegistryStl_create_resume(
        growth, [ints |-> ints, cap |-> vecCap],
        [i \in 1 .. regArg' |-> id_null], 0, regArg')

\* a create call of the auto-growing registry that runs out of free slots
C31_Case ==
    /\ regOp' \in {"create", "create_range"}
    /\ ~ noAutoResize
    /\ C31_Resume.grew

\* the first id handed out after the growth is C
C31_SlotC ==
    C31_Case =>
        /\ C31_Resume.slot = C31_Resume.C
        /\ regOut'[C31_Resume.given + 1] = ID_T(C31_Resume.C)

\* the scan made after the growth reads no word that lies below slot C
C31_NoRescan ==
    C31_Case =>
        \A w \in C31_Resume.reads : w * smc_bitSize >= C31_Resume.C

C31_ResumesAtNewSlot == [][C31_SlotC /\ C31_NoRescan]_vars

\* C32: a successful emplace takes its span only from the trailing free
\* span: the new partition's offset is the trailing span's previous offset,
\* its partition number is the trailing span's previous partition number,
\* and the trailing span shrinks by the length of the data from its left
\* edge.  Interior free spans are never used, and no other id's span,
\* payload or partition number changes.
IdsInRange == 0 .. (Len(m_partitions.m_idToPartition) - 1)

\* an emplace call that finds room in the trailing free span and returns,
\* on a store that no call has damaged
C32_Case ==
    /\ mmOp' = "emplace"
    /\ fault = "none" /\ fault' \in {"none", "undefined"}
    /\ mmLen' <= Trailing.m_size

C32_Taken ==
    /\ m_partitions'.m_idToData[mmArg' + 1]
          = [m_offset |-> Trailing.m_offset, m_size |-> mmLen']
    /\ m_partitions'.m_idToPartition[mmArg' + 1] = Trailing.m_partitionNum
    /\ Trailing.m_partitionNum < ids_capacity =>
          m_partitions'.m_partitionToId[Trailing.m_partitionNum + 1] = mmArg'
    /\ mmRet' = Trailing.m_offset
    /\ DataRead(m_data', Trailing.m_offset, mmLen') = Payload(mmArg', mmLen')

C32_TrailingShrinks ==
    /\ Trailing'.m_offset = Trailing.m_offset + mmLen'
    /\ Trailing'.m_size = Trailing.m_size - mmLen'
    /\ Trailing'.m_size >= 0

C32_Frame ==
    /\ m_partitions'.m_free = m_partitions.m_free
    /\ m_dataSize' = m_dataSize
    /\ \A id \in IdsInRange \ {mmArg'} :
          /\ m_partitions'.m_idToData[id + 1] = m_partitions.m_idToData[id + 1]
          /\ m_partitions'.m_idToPartition[id + 1]
                = m_partitions.m_idToPartition[id + 1]
          /\ PartitionDescStl_exists(m_partitions, id) =>
                DataRead(m_data', m_partitions.m_idToData[id + 1].m_offset,
                         m_partitions.m_idToData[id + 1].m_size)
                  = DataRead(m_data, m_partitions.m_idToData[id + 1].m_offset,
                             m_partitions.m_idToData[id + 1].m_size)
    /\ \A q \in DOMAIN m_partitions.m_partitionToId :
          q # Trailing.m_partitionNum + 1 =>
              m_partitions'.m_partitionToId[q] = m_partitions.m_partitionToId[q]

C32_Step == C32_Case => C32_Taken /\ C32_TrailingShrinks /\ C32_Frame

C32_EmplaceFromTrailing == [][C32_Step]_vars

\* id 0 was emplaced again, with MaxLen elements, behind the live id 1, while
\* the span it had before is an interior free span
C32_Witness ==
    /\ mmOp = "emplace" /\ mmArg = 0 /\ mmLen = MaxLen /\ fault = "none"
    /\ Len(m_partitions.m_free) = 1
    /\ m_partitions.m_free[1].m_offset = 0
    /\ m_partitions.m_idToData[1] = [m_offset |-> 2, m_size |-> MaxLen]
    /\ m_partitions.m_idToPartition[1] = 2
    /\ PartitionDescStl_exists(m_partitions, 1)

\* C33: erase(id) on a live id removes the binding of the id and adds one
\* free-span record that covers exactly the old span of that partition; it
\* leaves data_capacity(), the trailing free span, and every other id's
\* offset, length, partition number and payload unchanged.
C33_Case == mmOp' = "erase" /\ fault = "none" /\ fault' = "none"

\* the record of the span the erased id held
C33_Record ==
    [m_offset         |-> m_partitions.m_idToData[mmArg' + 1].m_offset,
     m_partitionNum   |-> m_partitions.m_idToPartition[mmArg' + 1],
     m_partitionCount |-> 1,
     m_size           |-> m_partitions.m_idToData[mmArg' + 1].m_size]

C33_Unbound ==
    /\ PartitionDescStl_exists(m_partitions, mmArg')
    /\ ~ PartitionDescStl_exists(m_partitions', mmArg')
    /\ m_partitions'.m_partitionToId[C33_Record.m_partitionNum + 1] = smc_null

\* m_free is as before with the one record put in at some position
C33_OneRecord ==
    \E pos \in 0 .. Len(m_partitions.m_free) :
        m_partitions'.m_free
            = SubSeq(m_partitions.m_free, 1, pos) \o <<C33_Record>>
                \o SubSeq(m_partitions.m_free, pos + 1, Len(m_partitions.m_free))

C33_Frame ==
    /\ m_dataSize' = m_dataSize
    /\ Trailing' = Trailing
    /\ \A id \in IdsInRange \ {mmArg'} :
          /\ m_partitions'.m_idToData[id + 1] = m_partitions.m_idToData[id + 1]
          /\ m_partitions'.m_idToPartition[id + 1]
                = m_partitions.m_idToPartition[id + 1]
          /\ PartitionDescStl_exists(m_partitions, id) =>
                DataRead(m_data', m_partitions.m_idToData[id + 1].m_offset,
                         m_partitions.m_idToData[id + 1].m_size)
                  = DataRead(m_data, m_partitions.m_idToData[id + 1].m_offset,
                             m_partitions.m_idToData[id + 1].m_size)
    /\ \A q \in DOMAIN m_partitions.m_partitionToId :
          q # C33_Record.m_partitionNum + 1 =>
              m_partitions'.m_partitionToId[q] = m_partitions.m_partitionToId[q]

C33_Step == C33_Case => C33_Unbound /\ C33_OneRecord /\ C33_Frame

C33_EraseAddsOneRecord == [][C33_Step]_vars

\* C34: every pack(n) call terminates, and repeated pack(n) calls with a
\* fixed n >= 1 on any fragmented store eventually reach a state with no
\* interior free spans, after which pack changes nothing.
\* a call that was entered returns, unless the process is killed
C34_Terminates ==
    (mmOp = "packing") ~> (mmOp = "pack" \/ fault \in {"abort", "crash"})

\* the calls reach a store without interior free spans, unless a build
\* without assertions has left defined behaviour
C34_Reaches ==
    (mmOp = "pack" /\ fault = "none") ~>
        \/ mmOp = "pack" /\ m_partitions.m_free = << >>
        \/ fault = "undefined"

\* on a store without interior free spans a pack call changes nothing
C34_Idle ==
    (mmOp \in {"pack", "packing"} /\ fault = "none"
        /\ m_partitions.m_free = << >>) =>
        UNCHANGED <<m_partitions, m_data, m_dataSize, m_dataNull, fault>>

C34_RepeatedPackConverges ==
    /\ C34_Terminates
    /\ C34_Reaches
    /\ [][C34_Idle]_vars

\* C35: on a circuit in which every node has at most one publisher, one
\* step (update_nodes, then update_combinational) gives the same node values
\* and the same pending changes whatever the order in which the dirty nodes
\* and the dirty elements are visited.
\* what the step gives when both ranges are visited in ascending order
C35_Ascending ==
    step_in_order(circuit, updLogic, localDirty,
                  BitViewValues_iterate(updLogic.m_nodeDirty, TRUE),
                  BitViewValues_iterate(
                      dirty_after_nodes(circuit, updLogic, localDirty), TRUE))

OnePublisher ==
    \A e, f \in 1 .. circuit.m_elemCount :
        e # f => circuit.m_elemConnect[e][1] # circuit.m_elemConnect[f][1]

C35_Step ==
    (steps' = steps + 1 /\ OnePublisher) =>
        LET ascending == C35_Ascending
        IN  /\ circuit'.m_nodeValues = ascending.values
            /\ updLogic' = ascending.upd
            /\ elemNotified' = ascending.ret
            /\ localDirty' = BitView_reset_all(ascending.notified)

C35_OrderIndependent == [][C35_Step]_vars

\* the last step visited neither the dirty nodes nor the dirty elements in
\* ascending order, and left changes pending on two nodes
C35_Witness ==
    /\ cirPc = "order"
    /\ cirOrder = <<TRUE, TRUE>>
    /\ BitView_count(updLogic.m_nodeDirty) >= 2

\* C36: on a store with ids_capacity() = N, through any sequence of emplace
\* and erase calls that never holds more than N live ids, with or without
\* pack calls in between, every partition number that emplace assigns is
\* below N.
\* an emplace call that finds room in the trailing free span, on a store
\* that no call has damaged
C36_Case ==
    /\ mmOp' = "emplace"
    /\ fault = "none"
    /\ mmLen' <= Trailing.m_size

\* the partition number the call assigns
C36_Assigned == create_partition(mmLen', Trailing).prtn.m_partitionNum

C36_Step ==
    C36_Case => 0 <= C36_Assigned /\ C36_Assigned < ids_capacity

C36_PartitionNumbersBelowN == [][C36_Step]_vars

\* C37: the id -> partition and partition -> id maps are mutual inverses on
\* the live partitions; every partition number below the trailing free
\* span's number is either bound to exactly one live id or covered by
\* exactly one interior free record; and the partition numbers of the live
\* ids increase with their offsets.
LiveIds == {id \in IdsInRange : PartitionDescStl_exists(m_partitions, id)}

C37_Inverse ==
    /\ \A id \in LiveIds :
          VecGet(m_partitions.m_partitionToId,
                 m_partitions.m_idToPartition[id + 1], smc_null) = id
    /\ \A q \in DOMAIN m_partitions.m_partitionToId :
          m_partitions.m_partitionToId[q] # smc_null =>
              /\ m_partitions.m_partitionToId[q] \in LiveIds
              /\ m_partitions.m_idToPartition[m_partitions.m_partitionToId[q] + 1]
                    = q - 1

\* the live ids bound to partition q and the free records that cover it
BoundTo(q) == {id \in LiveIds : m_partitions.m_idToPartition[id + 1] = q}

Covering(q) ==
    {i \in DOMAIN m_partitions.m_free :
        /\ m_partitions.m_free[i].m_partitionNum <= q
        /\ q < m_partitions.m_free[i].m_partitionNum
                  + m_partitions.m_free[i].m_partitionCount}

C37_BoundOrCovered ==
    \A q \in 0 .. (Trailing.m_partitionNum - 1) :
        Cardinality(BoundTo(q)) + Cardinality(Covering(q)) = 1

C37_Ordered ==
    \A a, b \in LiveIds :
        m_partitions.m_idToPartition[a + 1] < m_partitions.m_idToPartition[b + 1]
            => m_partitions.m_idToData[a + 1].m_offset
                   < m_partitions.m_idToData[b + 1].m_offset

C37_PartitionMaps ==
    fault = "none" => C37_Inverse /\ C37_BoundOrCovered /\ C37_Ordered

\* C38: after data_reserve on a store that had interior free spans, the
\* trailing free span's partition number equals ids_count(): the live
\* partitions are numbered 0 .. ids_count() - 1 and no number is left between
\* them and the trailing span.
C38_Case ==
    /\ mmOp' = "data_reserve"
    /\ fault = "none"
    /\ fault' = "none"
    /\ m_partitions.m_free # << >>

C38_Step ==
    C38_Case =>
        /\ Trailing'.m_partitionNum = m_partitions'.m_idCount
        /\ \A id \in Live' :
              m_partitions'.m_idToPartition[id + 1] < m_partitions'.m_idCount

C38_ReserveRenumbersTrailing == [][C38_Step]_vars

\* C39: the size recorded in a free-span record is exact although the field
\* has 16 bits: the trailing free span's size is data_capacity() minus its
\* offset for every data capacity, 65536 elements and more included, and an
\* interior free span's size is the whole length up to the next span, the
\* sum of the lengths merged into it, not that sum modulo 2^16.
C39_TrailingExact == Trailing.m_size = data_capacity - Trailing.m_offset

\* the offsets at which a span of the store begins above the offset o
C39_Above(o) == {x.m_offset : x \in {y \in Pieces : y.m_offset > o}}

C39_InteriorExact ==
    \A i \in DOMAIN m_partitions.m_free :
        LET f == m_partitions.m_free[i]
            above == C39_Above(f.m_offset)
        IN  /\ above # {}
            /\ \A o \in above : f.m_offset + f.m_size <= o
            /\ f.m_offset + f.m_size \in above

C39_FreeSizesExact ==
    fault = "none" => C39_TrailingExact /\ C39_InteriorExact

====
